---- MODULE Spec2Model ----
(***************************************************************************)
(* Protocol runner of the experiment automation service                    *)
(* (src/services/automationService.ts) together with the oracle client     *)
(* functions it awaits (generateNarrative, evaluateCoherence,              *)
(* buildFullPrompt).  One action is one stretch of code between two        *)
(* suspension points (an awaited oracle call or an awaited pacing delay)   *)
(* or one loop head of the runner.  The callbacks the caller injects       *)
(* (onStatusChange, onUpdateRun) and the oracle traffic are recorded, in   *)
(* order, in the history variable events.                                  *)
(***************************************************************************)
EXTENDS Integers, Sequences, FiniteSets, TLC

(* ------------------------------- bounds -------------------------------- *)
MaxRunCount == 3      \* config.runCount ranges over 0..MaxRunCount
MaxIterations == 2    \* config.iterations ranges over 0..MaxIterations
MaxFaults == 1        \* oracle answers per execution that are recovered locally
MaxAnnsA == 2         \* annotations in the first list of a compared pair
MaxAnnsB == 2         \* annotations in the second list of a compared pair
MaxMatches == 2       \* entries in an answer of the judge

(* ----------------------------- vocabulary ------------------------------ *)
CONVERGENCE == "Convergence Loop"
COMPARATIVE == "Method Comparison"
ABLATION == "Context Ablation"
CONSISTENCY_TEXT == "Text Consistency Check"
CONSISTENCY_ANNOTATION == "Annotation Consistency Check"
CUSTOM == "Custom Protocol"
ExperimentType ==
  {CONVERGENCE, COMPARATIVE, ABLATION, CONSISTENCY_TEXT, CONSISTENCY_ANNOTATION, CUSTOM}

STANDARD == "Standard Generation"
STEP_BY_STEP == "Step-by-Step (Visible Thought)"
REFINE_LOOP == "Refinement Loop"
NoMethod == "null"

AllResources == {"r1"}
evaluationCategories == <<[id |-> "c1", name |-> "Coherence"]>>

NoDoc == [id |-> 0]
NoRun == <<"", 0>>
NoFrame == [caller |-> "none"]
NoResult == [annotations |-> <<>>, scores |-> <<>>]
\* compareAnnotations is not running
NoComparison == [pc |-> "idle"]
NoApplication == [pc |-> "idle"]

NoReport == [built |-> FALSE]

Max(a, b) == IF a >= b THEN a ELSE b

(* ------------------------ injected collaborators ----------------------- *)
\* the run-id resolver: distinct ids for distinct (label, index) pairs
getRunIdByLabel(label, index) == <<label, index>>

prepResources(activeIds) ==
  {[id |-> r, enabled |-> (r \in activeIds)] : r \in AllResources}

\* the resources that buildFullPrompt puts into the prompt
buildFullPrompt(taskPrompt, resources, refinementContext) ==
  LET activeResources ==
        IF refinementContext.present
          THEN {r \in resources : r.id \in refinementContext.config.activeResourceIds}
          ELSE {r \in resources : r.enabled}
  IN [taskPrompt |-> taskPrompt,
      resources |-> {r.id : r \in activeResources},
      originalText |-> IF refinementContext.present
                         THEN refinementContext.originalText ELSE 0]

(* --------------------------- score handling ---------------------------- *)
RECURSIVE normalizeFrom(_, _, _)
normalizeFrom(categories, rawScores, result) ==
  IF rawScores = <<>> THEN result
  ELSE LET entry == Head(rawScores)
           hits == {n \in 1..Len(categories) :
                      categories[n].id = entry.key \/ categories[n].name = entry.key}
           catId == IF hits = {} THEN entry.key
                    ELSE categories[CHOOSE n \in hits : \A m \in hits : n <= m].id
           kept == [key \in (DOMAIN result) \cup {catId} |->
                      IF key = catId THEN [AI |-> entry.value.v] ELSE result[key]]
       IN normalizeFrom(categories, Tail(rawScores),
                        IF entry.value.isNumber THEN kept ELSE result)

\* variant: every numeric entry is stored under its raw key
normalizeScores_RawKeys(categories, rawScores) ==
  LET numeric == SelectSeq(rawScores, LAMBDA entry : entry.value.isNumber)
  IN [key \in {numeric[n].key : n \in DOMAIN numeric} |->
        [AI |-> numeric[CHOOSE n \in DOMAIN numeric :
                          /\ numeric[n].key = key
                          /\ \A m \in DOMAIN numeric : numeric[m].key = key => m <= n].value.v]]

normalizeScores(categories, rawScores) ==
  normalizeFrom(categories, rawScores, <<>>)

(* ------------------------------- state --------------------------------- *)
VARIABLES
  config,       \* the ExperimentConfig of this execution
  pc,           \* position of the single thread of control
  events,       \* callbacks, oracle calls, oracle replies and delays, in order
  i,            \* loop index of runExperimentLoop (repetition or variant)
  phase,        \* which labelled run of the repetition (1 or 2)
  k,            \* loop index of executeRefinementLoop
  currentStep,  \* currentStep of executeRefinementLoop
  gs,           \* the frame of runGenerationStep
  genResult,    \* genResult of runGenerationStep
  evalResult,   \* evalResult of runGenerationStep / of the annotation pass
  newDoc,       \* the node the last generation step returned
  outputs,      \* outputs of the consistency protocols
  rb,           \* the frame of buildConsistencyReport
  report,       \* the report under construction
  result,       \* what runExperimentLoop returned: "pending", "undefined", "report"
  nextId,       \* source of crypto.randomUUID()
  cmp,          \* the frame of compareAnnotations
  fn            \* the frame of a helper function applied on its own

vars == <<fn, cmp, config, pc, events, i, phase, k, currentStep, gs, genResult,
          evalResult, newDoc, outputs, rb, report, result, nextId>>

(* ------------------------------ events --------------------------------- *)
StatusEvent(runId, status) ==
  [type |-> "status", runId |-> runId, status |-> status]
NodeEvent(runId, node) ==
  [type |-> "node", runId |-> runId, node |-> node]
CallEvent(kind, site, runId, resources) ==
  [type |-> "call", kind |-> kind, site |-> site, runId |-> runId,
   resources |-> resources]
ReplyEvent(kind, outcome) ==
  [type |-> "reply", kind |-> kind, outcome |-> outcome]
DelayEvent == [type |-> "delay"]

Emit(es) == events' = events \o es

EventsOf(type) == SelectSeq(events, LAMBDA e : e.type = type)
Count(type) == Len(EventsOf(type))

\* answers that the code recovers from locally (everything but "ok" and a
\* rejected generation call, which ends the execution)
IsFault(e) == e.type = "reply" /\ e.outcome # "ok"
Faults == Len(SelectSeq(events, IsFault))
MayFault == Faults < MaxFaults

\* a fresh value standing for what an oracle answered to the n-th call
Fresh == Count("call")

(* ------------------------------- Init ---------------------------------- *)
RefineConfigs ==
  {[defined |-> FALSE, activeResourceIds |-> {}]} \cup
  {[defined |-> TRUE, activeResourceIds |-> ids] : ids \in SUBSET AllResources}

Configs ==
  [type : ExperimentType,
   runCount : 0..MaxRunCount,
   iterations : 0..MaxIterations,
   activeResourceIds : SUBSET AllResources,
   refineConfig : RefineConfigs]

Init ==
  /\ config \in Configs
  /\ pc = "entry"
  /\ events = <<>>
  /\ i = 0
  /\ phase = 1
  /\ k = 0
  /\ currentStep = NoDoc
  /\ gs = NoFrame
  /\ genResult = [text |-> 0]
  /\ evalResult = NoResult
  /\ newDoc = NoDoc
  /\ outputs = <<>>
  /\ rb = [i |-> 0, j |-> 0]
  /\ report = NoReport
  /\ result = "pending"
  /\ nextId = 1
  /\ cmp = NoComparison
  /\ fn = NoApplication

(* ------------------------- runGenerationStep --------------------------- *)
StepFrame(runId, runLabel, previousStep, resources, activeResourceIds, methodOverride, stepNumber, iteration, caller) ==
  [caller |-> caller, runId |-> runId, runLabel |-> runLabel,
   previousStep |-> previousStep, resources |-> resources,
   activeResourceIds |-> activeResourceIds, methodOverride |-> methodOverride,
   stepNumber |-> stepNumber, iteration |-> iteration,
   method |-> NoMethod, taskPrompt |-> "", runResourceIds |-> {},
   fullPrompt |-> [taskPrompt |-> "", resources |-> {}, originalText |-> 0]]

\* variant: the override is ignored
SelectMethod_IgnoresOverride(previousStep, methodOverride) ==
  IF previousStep # NoDoc THEN REFINE_LOOP ELSE STANDARD

\* predecessor present => refinement; else an override => that method; else standard
SelectMethod(previousStep, methodOverride) ==
  IF previousStep # NoDoc THEN REFINE_LOOP
  ELSE IF methodOverride # NoMethod THEN methodOverride
  ELSE STANDARD

SelectTaskPrompt(previousStep, methodOverride) ==
  IF previousStep # NoDoc THEN "refinePrompt"
  ELSE IF methodOverride = STEP_BY_STEP THEN "stepPrompt"
  ELSE "taskPrompt"

\* refineSettings.activeResourceIds of runGenerationStep
RunResourceIds(activeResourceIds) ==
  IF config.refineConfig.defined
    THEN config.refineConfig.activeResourceIds
    ELSE activeResourceIds

\* from the entry of runGenerationStep to the awaited generation call
BeginGenerationStep ==
  /\ pc = "step"
  /\ LET method == SelectMethod(gs.previousStep, gs.methodOverride)
         taskPrompt == SelectTaskPrompt(gs.previousStep, gs.methodOverride)
         runResourceIds == RunResourceIds(gs.activeResourceIds)
         refinementContext ==
           IF method = REFINE_LOOP /\ gs.previousStep # NoDoc
             THEN [present |-> TRUE,
                   originalText |-> gs.previousStep.content,
                   config |-> [activeResourceIds |-> runResourceIds]]
             ELSE [present |-> FALSE]
         fullPrompt == buildFullPrompt(taskPrompt, gs.resources, refinementContext)
     IN /\ gs' = [gs EXCEPT !.method = method, !.taskPrompt = taskPrompt,
                            !.runResourceIds = runResourceIds,
                            !.fullPrompt = fullPrompt]
        /\ Emit(<<CallEvent("generation", "step", gs.runId, fullPrompt.resources)>>)
  /\ pc' = "gen"
  /\ UNCHANGED <<fn, cmp, config, i, phase, k, currentStep, genResult, evalResult,
                 newDoc, outputs, rb, report, result, nextId>>

\* generateNarrative resolves inside runGenerationStep; the pacing delay starts
GenerateNarrativeResolve ==
  /\ pc = "gen"
  /\ genResult' = [text |-> Fresh]
  /\ Emit(<<ReplyEvent("generation", "ok")>>)
  /\ pc' = "genDelay"
  /\ UNCHANGED <<fn, cmp, config, i, phase, k, currentStep, gs, evalResult, newDoc,
                 outputs, rb, report, result, nextId>>

\* variant: the catch block of runExperimentLoop throws the error again
CatchBlock_Rethrows ==
  /\ pc' = "done"
  /\ result' = "rejected"

\* the catch block of runExperimentLoop: log the error and return nothing
CatchBlock ==
  /\ pc' = "done"
  /\ result' = "undefined"

\* variant: the rejection is swallowed like an evaluation failure and the step goes on
GenerateNarrativeReject_Swallowed ==
  /\ pc = "gen"
  /\ genResult' = [text |-> 0]
  /\ Emit(<<ReplyEvent("generation", "rejected")>>)
  /\ pc' = "genDelay"
  /\ UNCHANGED <<fn, cmp, config, i, phase, k, currentStep, gs, evalResult, newDoc,
                 outputs, rb, report, result, nextId>>

\* generateNarrative rethrows; nothing between it and the catch block of
\* runExperimentLoop handles the error
GenerateNarrativeReject ==
  /\ pc = "gen"
  /\ Emit(<<ReplyEvent("generation", "rejected")>>)
  /\ CatchBlock
  /\ UNCHANGED <<fn, cmp, config, i, phase, k, currentStep, gs, genResult, evalResult,
                 newDoc, outputs, rb, report, nextId>>

\* variant: the delay is started but not awaited before the evaluation call
DelayAfterGeneration_NotAwaited ==
  /\ pc = "genDelay"
  /\ Emit(<<CallEvent("evaluation", "step", gs.runId,
                      {r.id : r \in {x \in gs.resources : x.id \in gs.runResourceIds}})>>)
  /\ pc' = "eval"
  /\ UNCHANGED <<fn, cmp, config, i, phase, k, currentStep, gs, genResult, evalResult,
                 newDoc, outputs, rb, report, result, nextId>>

\* the delay after the generation call elapses; the evaluation call is issued
DelayAfterGeneration ==
  /\ pc = "genDelay"
  /\ Emit(<<DelayEvent,
            CallEvent("evaluation", "step", gs.runId,
                      {r.id : r \in {x \in gs.resources : x.id \in gs.runResourceIds}})>>)
  /\ pc' = "eval"
  /\ UNCHANGED <<fn, cmp, config, i, phase, k, currentStep, gs, genResult, evalResult,
                 newDoc, outputs, rb, report, result, nextId>>

(* -------------------------- evaluateCoherence -------------------------- *)
AfterEvaluation == IF pc = "eval" THEN "evalDelay" ELSE "caDoc"

\* the call resolves with a payload that parses
EvaluateCoherenceResolve ==
  /\ pc \in {"eval", "caEval"}
  /\ evalResult' =
       [annotations |-> <<[quote |-> Fresh]>>,
        scores |-> <<[key |-> "Coherence", value |-> [isNumber |-> TRUE, v |-> 70]]>>]
  /\ Emit(<<ReplyEvent("evaluation", "ok")>>)
  /\ pc' = AfterEvaluation
  /\ UNCHANGED <<fn, cmp, config, i, phase, k, currentStep, gs, genResult, newDoc,
                 outputs, rb, report, result, nextId>>

\* variant: the parse error escapes evaluateCoherence and reaches the catch block
EvaluateCoherenceMalformed_Throws ==
  /\ pc \in {"eval", "caEval"}
  /\ MayFault
  /\ Emit(<<ReplyEvent("evaluation", "malformed")>>)
  /\ CatchBlock
  /\ UNCHANGED <<fn, cmp, config, i, phase, k, currentStep, gs, genResult, evalResult,
                 newDoc, outputs, rb, report, nextId>>

\* JSON.parse throws inside the try block: the empty fallback is returned
EvaluateCoherenceMalformed ==
  /\ pc \in {"eval", "caEval"}
  /\ MayFault
  /\ evalResult' = NoResult
  /\ Emit(<<ReplyEvent("evaluation", "malformed")>>)
  /\ pc' = AfterEvaluation
  /\ UNCHANGED <<fn, cmp, config, i, phase, k, currentStep, gs, genResult, newDoc,
                 outputs, rb, report, result, nextId>>

\* the call itself rejects inside the same try block: same empty fallback
EvaluateCoherenceReject ==
  /\ pc \in {"eval", "caEval"}
  /\ MayFault
  /\ evalResult' = NoResult
  /\ Emit(<<ReplyEvent("evaluation", "rejected")>>)
  /\ pc' = AfterEvaluation
  /\ UNCHANGED <<fn, cmp, config, i, phase, k, currentStep, gs, genResult, newDoc,
                 outputs, rb, report, result, nextId>>

EvaluatorAnnotations(candidates) ==
  [n \in 1..Len(candidates) |->
     [quote |-> candidates[n].quote, author |-> "AI_EVALUATOR"]]

ReturnSite(caller) ==
  CASE caller = "refine" -> "rlRet"
    [] caller = "sbs" -> "sbsRet"
    [] caller = "text" -> "ctRet"
    [] caller = "annotation" -> "caLoop"

\* the delay after the evaluation call elapses; the node is built and returned
FinishGenerationStep ==
  /\ pc = "evalDelay"
  /\ Emit(<<DelayEvent>>)
  /\ newDoc' = [id |-> nextId,
                parentId |-> gs.previousStep.id,
                content |-> genResult.text,
                method |-> gs.method,
                taskPromptSnapshot |-> gs.taskPrompt,
                fullPromptSnapshot |-> gs.fullPrompt,
                activeResourceIds |-> gs.runResourceIds,
                runId |-> gs.runId,
                runLabel |-> gs.runLabel,
                diffStats |-> [defined |-> gs.method = REFINE_LOOP /\ gs.previousStep # NoDoc],
                annotations |-> EvaluatorAnnotations(evalResult.annotations),
                scores |-> normalizeScores(evaluationCategories, evalResult.scores)]
  /\ nextId' = nextId + 1
  /\ pc' = ReturnSite(gs.caller)
  /\ UNCHANGED <<fn, cmp, config, i, phase, k, currentStep, gs, genResult, evalResult,
                 outputs, rb, report, result>>

(* ------------- executeRefinementLoop and executeStepByStep ------------- *)
\* variant: the node is published but currentStep is not advanced
RefinementLoopPublish_StaleStep ==
  /\ pc = "rlRet"
  /\ Emit(<<NodeEvent(gs.runId, newDoc)>>)
  /\ pc' = "rlLoop"
  /\ UNCHANGED <<fn, cmp, config, i, phase, k, currentStep, gs, genResult, evalResult,
                 newDoc, outputs, rb, report, result, nextId>>

\* onUpdateRun(runId, currentStep) after the seed and after each iteration
RefinementLoopPublish ==
  /\ pc = "rlRet"
  /\ currentStep' = newDoc
  /\ Emit(<<NodeEvent(gs.runId, newDoc)>>)
  /\ pc' = "rlLoop"
  /\ UNCHANGED <<fn, cmp, config, i, phase, k, gs, genResult, evalResult, newDoc,
                 outputs, rb, report, result, nextId>>

\* variant: the loop bound is off by one (i <= config.iterations)
RefinementLoopIterate_OffByOne ==
  /\ pc = "rlLoop"
  /\ k <= config.iterations
  /\ k' = k + 1
  /\ gs' = StepFrame(gs.runId, gs.runLabel, currentStep, gs.resources,
                     gs.activeResourceIds, REFINE_LOOP, gs.stepNumber + 1,
                     k + 1, "refine")
  /\ pc' = "step"
  /\ UNCHANGED <<fn, cmp, config, events, i, phase, currentStep, genResult,
                 evalResult, newDoc, outputs, rb, report, result, nextId>>

\* one more iteration: the next step refines currentStep
RefinementLoopIterate ==
  /\ pc = "rlLoop"
  /\ k < config.iterations
  /\ k' = k + 1
  /\ gs' = StepFrame(gs.runId, gs.runLabel, currentStep, gs.resources,
                     gs.activeResourceIds, REFINE_LOOP, gs.stepNumber + 1,
                     k + 1, "refine")
  /\ pc' = "step"
  /\ UNCHANGED <<fn, cmp, config, events, i, phase, currentStep, genResult,
                 evalResult, newDoc, outputs, rb, report, result, nextId>>

(* --------------------------- runExperimentLoop ------------------------- *)
\* variant: the two runs of a Comparative repetition in the other order
RunLabels_Swapped(type) ==
  CASE type = CONVERGENCE -> <<"Convergence">>
    [] type = COMPARATIVE -> <<"Refinement Loop", "Step-by-Step">>
    [] type = ABLATION -> <<"Full Context", "Zero Context">>
    [] OTHER -> <<"Custom">>

\* the labelled runs of one repetition of the chain protocols
RunLabels(type) ==
  CASE type = CONVERGENCE -> <<"Convergence">>
    [] type = COMPARATIVE -> <<"Step-by-Step", "Refinement Loop">>
    [] type = ABLATION -> <<"Full Context", "Zero Context">>
    [] OTHER -> <<"Custom">>

\* the resource ids runExperimentLoop hands to the run with this label
RunActiveIds(label) ==
  IF label = "Zero Context" THEN {} ELSE config.activeResourceIds

\* variant: the requested count is used without clamping
variantCount_NoClamp == config.runCount

variantCount == Max(2, IF config.runCount = 0 THEN 2 ELSE config.runCount)

\* dispatch on config.type
EnterProtocol ==
  /\ pc = "entry"
  /\ pc' = CASE config.type = CONSISTENCY_ANNOTATION -> "caBase"
             [] config.type = CONSISTENCY_TEXT -> "ctLoop"
             [] OTHER -> "runLoop"
  /\ i' = 0
  /\ phase' = 1
  /\ outputs' = <<>>
  /\ UNCHANGED <<fn, cmp, config, events, k, currentStep, gs, genResult, evalResult,
                 newDoc, rb, report, result, nextId>>

\* report the next labelled run 'running' and enter its executor
StartRun ==
  /\ pc = "runLoop"
  /\ i < config.runCount
  /\ LET label == RunLabels(config.type)[phase]
         runId == getRunIdByLabel(label, i)
         sbs == (label = "Step-by-Step")
     IN /\ Emit(<<StatusEvent(runId, "running")>>)
        /\ gs' = StepFrame(runId, label, NoDoc, prepResources(RunActiveIds(label)),
                           RunActiveIds(label),
                           IF sbs THEN STEP_BY_STEP ELSE STANDARD,
                           1, 0, IF sbs THEN "sbs" ELSE "refine")
  /\ k' = 0
  /\ currentStep' = NoDoc
  /\ pc' = "step"
  /\ UNCHANGED <<fn, cmp, config, i, phase, genResult, evalResult, newDoc, outputs,
                 rb, report, result, nextId>>

\* variant: the repetition index is not advanced
NextRun_Stuck ==
  IF phase < Len(RunLabels(config.type))
    THEN /\ phase' = phase + 1
         /\ i' = i
    ELSE /\ phase' = 1
         /\ i' = i

\* advance to the next labelled run of the repetition, or to the next repetition
NextRun ==
  IF phase < Len(RunLabels(config.type))
    THEN /\ phase' = phase + 1
         /\ i' = i
    ELSE /\ phase' = 1
         /\ i' = i + 1

\* executeRefinementLoop returns; its run is reported 'completed'
CompleteRefinementRun ==
  /\ pc = "rlLoop"
  /\ k >= config.iterations
  /\ Emit(<<StatusEvent(gs.runId, "completed")>>)
  /\ NextRun
  /\ pc' = "runLoop"
  /\ UNCHANGED <<fn, cmp, config, k, currentStep, gs, genResult, evalResult, newDoc,
                 outputs, rb, report, result, nextId>>

\* executeStepByStep publishes its node and returns; its run is 'completed'
CompleteStepByStepRun ==
  /\ pc = "sbsRet"
  /\ Emit(<<NodeEvent(gs.runId, newDoc), StatusEvent(gs.runId, "completed")>>)
  /\ NextRun
  /\ pc' = "runLoop"
  /\ UNCHANGED <<fn, cmp, config, k, currentStep, gs, genResult, evalResult, newDoc,
                 outputs, rb, report, result, nextId>>

\* every repetition is done: "All protocols finished.", nothing is returned
FinishProtocol ==
  /\ pc = "runLoop"
  /\ i >= config.runCount
  /\ pc' = "done"
  /\ result' = "undefined"
  /\ UNCHANGED <<fn, cmp, config, events, i, phase, k, currentStep, gs, genResult,
                 evalResult, newDoc, outputs, rb, report, nextId>>

(* ------------------------ buildConsistencyReport ----------------------- *)
ReportFrame(annotationOnly) ==
  [i |-> 0, j |-> 1, annotationOnly |-> annotationOnly]

EmptyReport ==
  [built |-> FALSE, textPairs |-> <<>>, annotationPairs |-> <<>>,
   baselineComparisons |-> <<>>, variantBreakdown |-> <<>>, commentary |-> 0]

\* the pair the nested loops visit after (i, j)
NextPair(f, n) ==
  IF f.j + 1 < n THEN [f EXCEPT !.j = f.j + 1]
  ELSE [f EXCEPT !.i = f.i + 1, !.j = f.i + 2]

PairLabel(a, b) == <<a.label, b.label>>

TextPair(a, b) ==
  [pairLabel |-> PairLabel(a, b), contentA |-> a.doc.content, contentB |-> b.doc.content]

\* variant: the text metrics of a pair are pushed in annotation-only mode too
WithTextPair_Always(a, b) == Append(report.textPairs, TextPair(a, b))

\* textPairs after the if (!annotationOnly) block of the pair loop
WithTextPair(a, b) ==
  IF rb.annotationOnly THEN report.textPairs
  ELSE Append(report.textPairs, TextPair(a, b))

\* one pass of the pair loop up to the awaited comparison: the text metrics
\* are pushed, and the judge is called unless one annotation list is empty
ReportPair ==
  /\ pc = "rbLoop"
  /\ rb.j < Len(outputs)
  /\ LET a == outputs[rb.i + 1]
         b == outputs[rb.j + 1]
     IN IF Len(a.doc.annotations) = 0 \/ Len(b.doc.annotations) = 0
          THEN /\ report' = [report EXCEPT
                    !.textPairs = WithTextPair(a, b),
                    !.annotationPairs =
                       Append(@, [pairLabel |-> PairLabel(a, b), matcher |-> "fallback"])]
               /\ rb' = NextPair(rb, Len(outputs))
               /\ pc' = "rbLoop"
               /\ UNCHANGED events
          ELSE /\ report' = [report EXCEPT !.textPairs = WithTextPair(a, b)]
               /\ Emit(<<CallEvent("judge", "report", NoRun, {})>>)
               /\ pc' = "judge"
               /\ UNCHANGED rb
  /\ UNCHANGED <<fn, cmp, config, i, phase, k, currentStep, gs, genResult, evalResult,
                 newDoc, outputs, result, nextId>>

JudgedPair(matcher) ==
  /\ report' = [report EXCEPT !.annotationPairs =
        Append(@, [pairLabel |-> PairLabel(outputs[rb.i + 1], outputs[rb.j + 1]),
                   matcher |-> matcher])]
  /\ rb' = NextPair(rb, Len(outputs))
  /\ pc' = "rbLoop"

\* the judge call resolves (matchAnnotationsWithGemini)
JudgeResolve ==
  /\ pc = "judge"
  /\ Emit(<<ReplyEvent("judge", "ok")>>)
  /\ JudgedPair("judge")
  /\ UNCHANGED <<fn, cmp, config, i, phase, k, currentStep, gs, genResult, evalResult,
                 newDoc, outputs, result, nextId>>

\* the judge call rejects: caught in matchAnnotationsWithGemini, fallback kept
JudgeReject ==
  /\ pc = "judge"
  /\ MayFault
  /\ Emit(<<ReplyEvent("judge", "rejected")>>)
  /\ JudgedPair("fallback")
  /\ UNCHANGED <<fn, cmp, config, i, phase, k, currentStep, gs, genResult, evalResult,
                 newDoc, outputs, result, nextId>>

BaselineComparisons ==
  IF rb.annotationOnly THEN <<>>
  ELSE LET others == SelectSeq(outputs, LAMBDA r : r.label # outputs[1].label)
       IN [n \in 1..Len(others) |-> TextPair(outputs[1], others[n])]

VariantBreakdown ==
  IF rb.annotationOnly THEN <<>>
  ELSE [n \in 1..Len(outputs) |-> [runLabel |-> outputs[n].label]]

\* the pair loop is over: the rest of the report is built and returned, and
\* generateConsistencyCommentary issues its call
FinishReport ==
  /\ pc = "rbLoop"
  /\ rb.j >= Len(outputs)
  /\ report' = [report EXCEPT !.built = TRUE,
                              !.baselineComparisons = BaselineComparisons,
                              !.variantBreakdown = VariantBreakdown]
  /\ IF report.textPairs = <<>> /\ report.annotationPairs = <<>>
       THEN /\ pc' = "done"
            /\ result' = "report"
            /\ UNCHANGED events
       ELSE /\ Emit(<<CallEvent("commentary", "report", NoRun, {})>>)
            /\ pc' = "commentary"
            /\ UNCHANGED result
  /\ UNCHANGED <<fn, cmp, config, i, phase, k, currentStep, gs, genResult, evalResult,
                 newDoc, outputs, rb, nextId>>

\* the commentary call resolves; the report is returned
CommentaryResolve ==
  /\ pc = "commentary"
  /\ Emit(<<ReplyEvent("commentary", "ok")>>)
  /\ report' = [report EXCEPT !.commentary = Fresh]
  /\ pc' = "done"
  /\ result' = "report"
  /\ UNCHANGED <<fn, cmp, config, i, phase, k, currentStep, gs, genResult, evalResult,
                 newDoc, outputs, rb, nextId>>

\* variant: the rejected commentary call is not caught where it is made
CommentaryReject_Propagates ==
  /\ pc = "commentary"
  /\ MayFault
  /\ Emit(<<ReplyEvent("commentary", "rejected")>>)
  /\ CatchBlock
  /\ UNCHANGED <<fn, cmp, config, i, phase, k, currentStep, gs, genResult, evalResult,
                 newDoc, outputs, rb, report, nextId>>

\* the commentary call rejects: caught, the report is returned without it
CommentaryReject ==
  /\ pc = "commentary"
  /\ MayFault
  /\ Emit(<<ReplyEvent("commentary", "rejected")>>)
  /\ pc' = "done"
  /\ result' = "report"
  /\ UNCHANGED <<fn, cmp, config, i, phase, k, currentStep, gs, genResult, evalResult,
                 newDoc, outputs, rb, report, nextId>>

(* ------------------- runExperimentLoop: text consistency --------------- *)
VariantLabel(n) == "Variant " \o ToString(n)

\* report the next variant 'running' and enter its generation step
TextVariantStart ==
  /\ pc = "ctLoop"
  /\ i < variantCount
  /\ LET label == VariantLabel(i + 1)
         runId == getRunIdByLabel(label, i)
     IN /\ Emit(<<StatusEvent(runId, "running")>>)
        /\ gs' = StepFrame(runId, label, NoDoc, prepResources(config.activeResourceIds),
                           config.activeResourceIds, STANDARD, 1, 0, "text")
  /\ pc' = "step"
  /\ UNCHANGED <<fn, cmp, config, i, phase, k, currentStep, genResult, evalResult,
                 newDoc, outputs, rb, report, result, nextId>>

\* the step returned: keep the node in outputs, report 'completed', then delay
TextVariantDone ==
  /\ pc = "ctRet"
  /\ outputs' = Append(outputs, [label |-> gs.runLabel, runId |-> gs.runId, doc |-> newDoc])
  /\ Emit(<<StatusEvent(gs.runId, "completed")>>)
  /\ pc' = "ctDelay"
  /\ UNCHANGED <<fn, cmp, config, i, phase, k, currentStep, gs, genResult, evalResult,
                 newDoc, rb, report, result, nextId>>

TextVariantDelay ==
  /\ pc = "ctDelay"
  /\ Emit(<<DelayEvent>>)
  /\ i' = i + 1
  /\ pc' = "ctLoop"
  /\ UNCHANGED <<fn, cmp, config, phase, k, currentStep, gs, genResult, evalResult,
                 newDoc, outputs, rb, report, result, nextId>>

\* every variant is generated: the highlighting call is issued
HighlightCall ==
  /\ pc = "ctLoop"
  /\ i >= variantCount
  /\ Emit(<<CallEvent("highlight", "protocol", NoRun, {})>>)
  /\ pc' = "highlight"
  /\ UNCHANGED <<fn, cmp, config, i, phase, k, currentStep, gs, genResult, evalResult,
                 newDoc, outputs, rb, report, result, nextId>>

\* o.doc.annotations = the highlight annotations listed under o.label
WithHighlights(anns) ==
  [n \in 1..Len(outputs) |->
     [outputs[n] EXCEPT !.doc.annotations = anns]]

\* the highlighting call resolves with a payload that lists every variant
HighlightResolve ==
  /\ pc = "highlight"
  /\ Emit(<<ReplyEvent("highlight", "ok")>>)
  /\ outputs' = WithHighlights(<<[quote |-> Fresh, author |-> "AI_CONSISTENCY"]>>)
  /\ pc' = "ctPersist"
  /\ UNCHANGED <<fn, cmp, config, i, phase, k, currentStep, gs, genResult, evalResult,
                 newDoc, rb, report, result, nextId>>

\* the payload does not parse: annMap stays empty
HighlightUnparsable ==
  /\ pc = "highlight"
  /\ MayFault
  /\ Emit(<<ReplyEvent("highlight", "malformed")>>)
  /\ outputs' = WithHighlights(<<>>)
  /\ pc' = "ctPersist"
  /\ UNCHANGED <<fn, cmp, config, i, phase, k, currentStep, gs, genResult, evalResult,
                 newDoc, rb, report, result, nextId>>

\* variant: the rejected highlight call is not caught by the inner try
HighlightReject_Propagates ==
  /\ pc = "highlight"
  /\ MayFault
  /\ Emit(<<ReplyEvent("highlight", "rejected")>>)
  /\ CatchBlock
  /\ UNCHANGED <<fn, cmp, config, i, phase, k, currentStep, gs, genResult, evalResult,
                 newDoc, outputs, rb, report, nextId>>

\* the highlighting call rejects: caught by the inner try, outputs untouched
HighlightReject ==
  /\ pc = "highlight"
  /\ MayFault
  /\ Emit(<<ReplyEvent("highlight", "rejected")>>)
  /\ pc' = "ctPersist"
  /\ UNCHANGED <<fn, cmp, config, i, phase, k, currentStep, gs, genResult, evalResult,
                 newDoc, outputs, rb, report, result, nextId>>

\* outputs.forEach(o => onUpdateRun(o.runId, o.doc)), then the report is started
PersistOutputs ==
  /\ pc = "ctPersist"
  /\ Emit([n \in 1..Len(outputs) |-> NodeEvent(outputs[n].runId, outputs[n].doc)])
  /\ rb' = ReportFrame(FALSE)
  /\ report' = EmptyReport
  /\ pc' = "rbLoop"
  /\ UNCHANGED <<fn, cmp, config, i, phase, k, currentStep, gs, genResult, evalResult,
                 newDoc, outputs, result, nextId>>

(* ---------------- runExperimentLoop: annotation consistency ------------ *)
\* the base run is reported 'running' and the base document is generated
AnnotationBaseStart ==
  /\ pc = "caBase"
  /\ LET baseRunId == getRunIdByLabel("Variant 1", 0)
     IN /\ Emit(<<StatusEvent(baseRunId, "running")>>)
        /\ gs' = StepFrame(baseRunId, "Variant 1", NoDoc,
                           prepResources(config.activeResourceIds),
                           config.activeResourceIds, STANDARD, 1, 0, "annotation")
  /\ pc' = "step"
  /\ UNCHANGED <<fn, cmp, config, i, phase, k, currentStep, genResult, evalResult,
                 newDoc, outputs, rb, report, result, nextId>>

\* report the next variant 'running' and evaluate the base document again
AnnotationPassStart ==
  /\ pc = "caLoop"
  /\ i < variantCount
  /\ LET runId == getRunIdByLabel(VariantLabel(i + 1), i)
     IN Emit(<<StatusEvent(runId, "running"),
               CallEvent("evaluation", "pass", runId,
                         {r.id : r \in {x \in gs.resources : x.enabled}})>>)
  /\ pc' = "caEval"
  /\ UNCHANGED <<fn, cmp, config, i, phase, k, currentStep, gs, genResult, evalResult,
                 newDoc, outputs, rb, report, result, nextId>>

\* variant: the pass node copies the annotations and scores of the base document
AnnotationPassPublish_BaseAnnotations ==
  /\ pc = "caDoc"
  /\ LET label == VariantLabel(i + 1)
         runId == getRunIdByLabel(label, i)
         annDoc == [id |-> nextId,
                    parentId |-> newDoc.id,
                    content |-> newDoc.content,
                    method |-> STANDARD,
                    taskPromptSnapshot |-> "taskPrompt",
                    fullPromptSnapshot |-> newDoc.fullPromptSnapshot,
                    activeResourceIds |-> config.activeResourceIds,
                    runId |-> NoRun,
                    runLabel |-> "",
                    diffStats |-> [defined |-> FALSE],
                    annotations |-> newDoc.annotations,
                    scores |-> newDoc.scores]
     IN /\ outputs' = Append(outputs, [label |-> label, runId |-> runId, doc |-> annDoc])
        /\ Emit(<<NodeEvent(runId, annDoc), StatusEvent(runId, "completed")>>)
  /\ nextId' = nextId + 1
  /\ pc' = "caDelay"
  /\ UNCHANGED <<fn, cmp, config, i, phase, k, currentStep, gs, genResult, evalResult,
                 newDoc, rb, report, result>>

\* the evaluation returned: build annDoc, publish it, report 'completed', delay
AnnotationPassPublish ==
  /\ pc = "caDoc"
  /\ LET label == VariantLabel(i + 1)
         runId == getRunIdByLabel(label, i)
         annDoc == [id |-> nextId,
                    parentId |-> newDoc.id,
                    content |-> newDoc.content,
                    method |-> STANDARD,
                    taskPromptSnapshot |-> "taskPrompt",
                    fullPromptSnapshot |-> newDoc.fullPromptSnapshot,
                    activeResourceIds |-> config.activeResourceIds,
                    runId |-> NoRun,
                    runLabel |-> "",
                    diffStats |-> [defined |-> FALSE],
                    annotations |-> EvaluatorAnnotations(evalResult.annotations),
                    scores |-> normalizeScores(evaluationCategories, evalResult.scores)]
     IN /\ outputs' = Append(outputs, [label |-> label, runId |-> runId, doc |-> annDoc])
        /\ Emit(<<NodeEvent(runId, annDoc), StatusEvent(runId, "completed")>>)
  /\ nextId' = nextId + 1
  /\ pc' = "caDelay"
  /\ UNCHANGED <<fn, cmp, config, i, phase, k, currentStep, gs, genResult, evalResult,
                 newDoc, rb, report, result>>

AnnotationPassDelay ==
  /\ pc = "caDelay"
  /\ Emit(<<DelayEvent>>)
  /\ i' = i + 1
  /\ pc' = "caLoop"
  /\ UNCHANGED <<fn, cmp, config, phase, k, currentStep, gs, genResult, evalResult,
                 newDoc, outputs, rb, report, result, nextId>>

\* every pass is done: the annotation-only report is started
AnnotationReport ==
  /\ pc = "caLoop"
  /\ i >= variantCount
  /\ rb' = ReportFrame(TRUE)
  /\ report' = EmptyReport
  /\ pc' = "rbLoop"
  /\ UNCHANGED <<fn, cmp, config, events, i, phase, k, currentStep, gs, genResult,
                 evalResult, newDoc, outputs, result, nextId>>

(* --------------------------- specification ----------------------------- *)
Next ==
  \/ EnterProtocol
  \/ StartRun
  \/ BeginGenerationStep
  \/ GenerateNarrativeResolve
  \/ GenerateNarrativeReject
  \/ DelayAfterGeneration
  \/ EvaluateCoherenceResolve
  \/ EvaluateCoherenceMalformed
  \/ EvaluateCoherenceReject
  \/ FinishGenerationStep
  \/ RefinementLoopPublish
  \/ RefinementLoopIterate
  \/ CompleteRefinementRun
  \/ CompleteStepByStepRun
  \/ FinishProtocol
  \/ TextVariantStart
  \/ TextVariantDone
  \/ TextVariantDelay
  \/ HighlightCall
  \/ HighlightResolve
  \/ HighlightUnparsable
  \/ HighlightReject
  \/ PersistOutputs
  \/ AnnotationBaseStart
  \/ AnnotationPassStart
  \/ AnnotationPassPublish
  \/ AnnotationPassDelay
  \/ AnnotationReport
  \/ ReportPair
  \/ JudgeResolve
  \/ JudgeReject
  \/ FinishReport
  \/ CommentaryResolve
  \/ CommentaryReject

Spec == Init /\ [][Next]_vars

(* ------------------------- callbacks that throw ------------------------- *)
\* a callback threw inside the try block, or onLog threw inside the catch
\* block of runExperimentLoop
ThrowEvent(block) == [type |-> "throw", block |-> block]

\* the catch block when its onLog call throws: the async function rejects
CatchBlockLogThrows ==
  /\ pc' = "done"
  /\ result' = "rejected"

\* the runner is about to call getRunIdByLabel, onStatusChange or onUpdateRun
CallsBack ==
  \/ ENABLED StartRun
  \/ ENABLED RefinementLoopPublish
  \/ ENABLED CompleteRefinementRun
  \/ ENABLED CompleteStepByStepRun
  \/ ENABLED TextVariantStart
  \/ ENABLED TextVariantDone
  \/ ENABLED PersistOutputs
  \/ ENABLED AnnotationBaseStart
  \/ ENABLED AnnotationPassStart
  \/ ENABLED AnnotationPassPublish

\* the callback throws: the catch block logs the error and nothing is returned
CallbackThrows ==
  /\ CallsBack
  /\ Emit(<<ThrowEvent("try")>>)
  /\ CatchBlock
  /\ UNCHANGED <<fn, cmp, config, i, phase, k, currentStep, gs, genResult, evalResult,
                 newDoc, outputs, rb, report, nextId>>

\* the callback throws, and so does onLog when the catch block calls it
CallbackThrowsLogThrows ==
  /\ CallsBack
  /\ Emit(<<ThrowEvent("try"), ThrowEvent("catch")>>)
  /\ CatchBlockLogThrows
  /\ UNCHANGED <<fn, cmp, config, i, phase, k, currentStep, gs, genResult, evalResult,
                 newDoc, outputs, rb, report, nextId>>

\* the generation call rejects, and onLog throws when the catch block calls it
GenerateNarrativeRejectLogThrows ==
  /\ pc = "gen"
  /\ Emit(<<ReplyEvent("generation", "rejected"), ThrowEvent("catch")>>)
  /\ CatchBlockLogThrows
  /\ UNCHANGED <<fn, cmp, config, i, phase, k, currentStep, gs, genResult, evalResult,
                 newDoc, outputs, rb, report, nextId>>

ThrowingNext ==
  \/ Next
  \/ CallbackThrows
  \/ CallbackThrowsLogThrows
  \/ GenerateNarrativeRejectLogThrows

\* the runner with callbacks that may throw
ThrowingSpec == Init /\ [][ThrowingNext]_vars

TypeOK ==
  /\ pc \in {"entry", "runLoop", "step", "gen", "genDelay", "eval", "evalDelay",
             "rlRet", "rlLoop", "sbsRet", "ctLoop", "ctRet", "ctDelay",
             "highlight", "ctPersist", "caBase", "caLoop", "caEval", "caDoc",
             "caDelay", "rbLoop", "judge", "commentary", "done"}
  /\ result \in {"pending", "undefined", "report"}
  /\ (result # "pending") <=> (pc = "done")

(* ---------------------- strings and score arithmetic -------------------- *)
\* a string is the sequence of its characters; a score is a fraction <<n, d>>
\* of naturals with d > 0 (the code's doubles, kept exact)
LowerCase == <<"a", "b", "c", "d", "e", "f", "g", "h", "i", "j", "k", "l", "m", "n", "o", "p", "q", "r", "s", "t", "u", "v", "w", "x", "y", "z">>
UpperCase == <<"A", "B", "C", "D", "E", "F", "G", "H", "I", "J", "K", "L", "M", "N", "O", "P", "Q", "R", "S", "T", "U", "V", "W", "X", "Y", "Z">>
Digits == {"0", "1", "2", "3", "4", "5", "6", "7", "8", "9"}
Whitespace == {" ", "\t", "\n", "\r"}

IsAlphaNumeric(c) ==
  \/ \E n \in DOMAIN LowerCase : LowerCase[n] = c \/ UpperCase[n] = c
  \/ c \in Digits

toLowerCase(text) ==
  [n \in DOMAIN text |->
     IF \E u \in DOMAIN UpperCase : UpperCase[u] = text[n]
       THEN LowerCase[CHOOSE u \in DOMAIN UpperCase : UpperCase[u] = text[n]]
       ELSE text[n]]

\* a.includes(b)
includes(a, b) ==
  \E s \in 0..(Len(a) - Len(b)) : SubSeq(a, s + 1, s + Len(b)) = b

\* the element of a one-element set: Only({e(x) : x \in {v}}) is e with x
\* standing for the value of v, computed once
Only(S) == CHOOSE x \in S : TRUE

\* the n-th smallest element of a set of positions
Nth(positions, n) ==
  CHOOSE p \in positions : Cardinality({q \in positions : q < p}) = n - 1

\* split(/[^a-z0-9]+/i).filter(Boolean): the maximal alphanumeric stretches,
\* each given by the position it starts at
TokenStarts(text) ==
  {s \in DOMAIN text :
     IsAlphaNumeric(text[s]) /\ (s = 1 \/ ~IsAlphaNumeric(text[s - 1]))}

TokenAt(text, s) ==
  LET e == CHOOSE e \in s..Len(text) :
             /\ \A n \in s..e : IsAlphaNumeric(text[n])
             /\ e = Len(text) \/ ~IsAlphaNumeric(text[e + 1])
  IN SubSeq(text, s, e)

tokenize(text) ==
  LET lower == toLowerCase(text)
      starts == TokenStarts(lower)
  IN [n \in 1..Cardinality(starts) |-> TokenAt(lower, Nth(starts, n))]

\* new Set(tokenize(text))
TokenSet(text) ==
  LET lower == toLowerCase(text)
  IN {TokenAt(lower, s) : s \in TokenStarts(lower)}

\* the greatest common divisor of n and d, for d > 0
GCD(n, d) ==
  CHOOSE g \in 1..d :
    /\ d % g = 0 /\ n % g = 0
    /\ \A h \in (g + 1)..d : d % h # 0 \/ n % h # 0

\* the score n / d in lowest terms, so that equal scores are equal values
Fraction(n, d) == <<n \div GCD(n, d), d \div GCD(n, d)>>

Zero == <<0, 1>>
One == <<1, 1>>
Less(f, g) == f[1] * g[2] < g[1] * f[2]
SameValue(f, g) == f[1] * g[2] = g[1] * f[2]
Plus(f, g) == <<f[1] * g[2] + g[1] * f[2], f[2] * g[2]>>

\* Number(x.toFixed(digits)) scaled by 10^digits: f * scale rounded to an integer
Rounded(f, scale) == (2 * scale * f[1] + f[2]) \div (2 * f[2])

\* variant: the intersection is measured against the first set alone
jaccard_OverFirst(a, b) ==
  Fraction(Cardinality(a \cap b), IF Cardinality(a) = 0 THEN 1 ELSE Cardinality(a))

jaccard(a, b) ==
  LET unionSize == IF Cardinality(a \cup b) = 0 THEN 1 ELSE Cardinality(a \cup b)
  IN Fraction(Cardinality(a \cap b), unionSize)

\* variant: quotes are compared by their tokens only
quoteOverlapScore_TokensOnly(a, b) ==
  IF a = <<>> \/ b = <<>> THEN Zero ELSE jaccard(TokenSet(a), TokenSet(b))

quoteOverlapScore(a, b) ==
  IF a = <<>> \/ b = <<>> THEN Zero
  ELSE IF includes(a, b) \/ includes(b, a) THEN One
  ELSE jaccard(TokenSet(a), TokenSet(b))

\* clean of commentSimilarityScore: lower case, only alphanumerics and
\* whitespace kept, every stretch of whitespace made one blank, ends trimmed
clean(txt) ==
  LET kept == SelectSeq(toLowerCase(txt), LAMBDA c : IsAlphaNumeric(c) \/ c \in Whitespace)
      solid == {n \in DOMAIN kept : kept[n] \notin Whitespace}
      first == CHOOSE n \in solid : \A m \in solid : n <= m
      last == CHOOSE n \in solid : \A m \in solid : n >= m
      shown == {n \in first..last : n \in solid \/ (n - 1) \in solid}
  IN IF solid = {} THEN <<>>
     ELSE [n \in 1..Cardinality(shown) |->
             IF Nth(shown, n) \in solid THEN kept[Nth(shown, n)] ELSE " "]

commentSimilarityScore(a, b) ==
  IF a = <<>> \/ b = <<>> THEN Zero
  ELSE LET ca == clean(a)
           cb == clean(b)
       IN IF ca = <<>> \/ cb = <<>> THEN Zero
          ELSE IF ca = cb \/ includes(ca, cb) \/ includes(cb, ca) THEN One
          ELSE jaccard(TokenSet(ca), TokenSet(cb))

(* ----------------------- annotation matching engine --------------------- *)
\* variant: a candidate needs a quote overlap of 0.6
Threshold_Strict == <<60, 100>>

\* if (quoteScore < 0.35) return
Threshold == <<35, 100>>

\* quoteScore * 0.65 + commentScore * 0.35
Combined(quoteScore, commentScore) ==
  <<65 * quoteScore[1] * commentScore[2] + 35 * commentScore[1] * quoteScore[2],
    100 * quoteScore[2] * commentScore[2]>>

NoReason == [by |-> "none"]
NoBest == [idx |-> -1, score |-> Zero, quote |-> Zero, comment |-> Zero]

\* the inner annsB.forEach of fallbackAnnotationMatches, from index idxB on
RECURSIVE scanB(_, _, _, _, _)
scanB(annA, annsB, idxB, usedB, best) ==
  IF idxB >= Len(annsB) THEN best
  ELSE LET annB == annsB[idxB + 1]
           quoteScore == quoteOverlapScore(annA.quote, annB.quote)
           commentScore == commentSimilarityScore(annA.comment, annB.comment)
           combined == Combined(quoteScore, commentScore)
           skipped == idxB \in usedB \/ Less(quoteScore, Threshold)
       IN scanB(annA, annsB, idxB + 1, usedB,
                IF ~skipped /\ Less(best.score, combined)
                  THEN [idx |-> idxB, score |-> combined,
                        quote |-> quoteScore, comment |-> commentScore]
                  ELSE best)

\* the outer annsA.forEach of fallbackAnnotationMatches, from index idxA on
RECURSIVE matchFrom(_, _, _, _, _)
matchFrom(annsA, annsB, idxA, usedB, matches) ==
  IF idxA >= Len(annsA) THEN matches
  ELSE Only({IF best.idx # -1
               THEN matchFrom(annsA, annsB, idxA + 1, usedB \cup {best.idx},
                              Append(matches,
                                     [aIndex |-> idxA, bIndex |-> best.idx,
                                      reason |-> [by |-> "heuristic",
                                                  quote |-> Rounded(best.quote, 100),
                                                  comment |-> Rounded(best.comment, 100)],
                                      quoteScore |-> best.quote,
                                      commentScore |-> best.comment]))
               ELSE matchFrom(annsA, annsB, idxA + 1, usedB, matches) :
             best \in {scanB(annsA[idxA + 1], annsB, 0, usedB, NoBest)}})

fallbackAnnotationMatches(annsA, annsB) == matchFrom(annsA, annsB, 0, {}, <<>>)

\* variant: the early return of matchAnnotationsWithGemini is never taken
NothingToCompare_Never(annsA, annsB) == FALSE

\* the early return of matchAnnotationsWithGemini
NothingToCompare(annsA, annsB) == Len(annsA) = 0 \/ Len(annsB) = 0

\* what Number gives: an integer, or a value that is none (a fraction, NaN)
Integer(v) == [isInteger |-> TRUE, v |-> v]
NotInteger == [isInteger |-> FALSE, v |-> 0]

\* the values an index of a parsed judge entry may hold: a JSON number
\* (a whole one, or one half), null, or nothing at all
Whole(v) == [json |-> "number", whole |-> TRUE, v |-> v]
Half == [json |-> "number", whole |-> FALSE, v |-> 0]
Null == [json |-> "null", whole |-> FALSE, v |-> 0]
Undefined == [json |-> "undefined", whole |-> FALSE, v |-> 0]

\* Number(x): a number is itself, null is 0, undefined is NaN
Number(x) ==
  CASE x.json = "number" -> IF x.whole THEN Integer(x.v) ELSE NotInteger
    [] x.json = "null" -> Integer(0)
    [] OTHER -> NotInteger

\* the map and the integrity filter applied to the judge's matches
cleaned(matches, annsA, annsB) ==
  LET mapped == [n \in DOMAIN matches |->
                   [aIndex |-> Number(matches[n].aIndex),
                    bIndex |-> Number(matches[n].bIndex),
                    reason |-> matches[n].reason]]
      ok(m) ==
        /\ m.aIndex.isInteger
        /\ m.bIndex.isInteger
        /\ m.aIndex.v >= 0
        /\ m.bIndex.v >= 0
        /\ m.aIndex.v < Len(annsA)
        /\ m.bIndex.v < Len(annsB)
      kept == SelectSeq(mapped, ok)
  IN [n \in DOMAIN kept |->
        [aIndex |-> kept[n].aIndex.v, bIndex |-> kept[n].bIndex.v,
         reason |-> kept[n].reason]]

\* variant: an empty judge result overrides the heuristic result too
OverridesFallback_Always(llmResult) == TRUE

\* llmResult.matches && llmResult.matches.length > 0
OverridesFallback(llmResult) == Len(llmResult.matches) > 0

\* totalQuote / totalComment: the sum of a sequence of scores
RECURSIVE Total(_)
Total(scores) ==
  IF scores = <<>> THEN Zero ELSE Plus(Head(scores), Total(Tail(scores)))

\* the local matches of compareAnnotations after the await: the judge's
\* cleaned matches when they override, the heuristic ones otherwise
alignment(fallback, llmResult) ==
  IF OverridesFallback(llmResult) THEN llmResult.matches ELSE fallback

\* compareAnnotations after the await, for the heuristic matches found before it
Compared(annsA, annsB, fallback, llmResult) ==
  LET fallbackNote == IF fallback # <<>> THEN fallback[1].reason ELSE NoReason
      override == OverridesFallback(llmResult)
      matches == alignment(fallback, llmResult)
      note == IF override /\ llmResult.note # NoReason
                THEN llmResult.note ELSE fallbackNote
      matchedB == {matches[n].bIndex : n \in DOMAIN matches}
      shared == Len(matches)
      longest == Max(Len(annsA), Len(annsB))
      totalQuote ==
        Total([n \in DOMAIN matches |->
                 quoteOverlapScore(annsA[matches[n].aIndex + 1].quote,
                                   annsB[matches[n].bIndex + 1].quote)])
      totalComment ==
        Total([n \in DOMAIN matches |->
                 commentSimilarityScore(annsA[matches[n].aIndex + 1].comment,
                                        annsB[matches[n].bIndex + 1].comment)])
  IN [shared |-> shared,
      onlyA |-> Max(Len(annsA) - shared, 0),
      onlyB |-> Max(Len(annsB) - Cardinality(matchedB), 0),
      sharedFraction |-> IF longest > 0 THEN Fraction(shared, longest) ELSE Zero,
      note |-> note,
      averageQuoteOverlap |->
        IF shared > 0 THEN Rounded(<<totalQuote[1], totalQuote[2] * shared>>, 1000) ELSE 0,
      averageCommentSimilarity |->
        IF shared > 0 THEN Rounded(<<totalComment[1], totalComment[2] * shared>>, 1000) ELSE 0]

\* what compareAnnotations returns when matchAnnotationsWithGemini answered llmResult
compareAnnotations(annsA, annsB, llmResult) ==
  Only({Compared(annsA, annsB, fallback, llmResult) :
          fallback \in {fallbackAnnotationMatches(annsA, annsB)}})

\* the frame of compareAnnotations when it returns: the matches it settled
\* on and the metrics computed from them
returned(frame, llmResult) ==
  Only({[frame EXCEPT !.pc = "done",
                      !.matches = alignment(fallback, llmResult),
                      !.metrics = Compared(frame.annsA, frame.annsB, fallback, llmResult)] :
          fallback \in {fallbackAnnotationMatches(frame.annsA, frame.annsB)}})

(* ------------------- compareAnnotations on its own ---------------------- *)
\* annotations the two evaluations may have produced: quotes that contain one
\* another, overlap in part or not at all; comments that differ in case and
\* punctuation only, overlap in part, or are empty
AnnotationPool ==
  {[quote |-> <<"a", " ", "b">>, comment |-> <<"x", " ", "y">>],
   [quote |-> <<"a", " ", "b", " ", "c">>, comment |-> <<"x", " ", "z">>],
   [quote |-> <<"A", " ", "b", " ", "d">>, comment |-> <<"X", " ", "y", ".">>],
   [quote |-> <<"c">>, comment |-> <<>>]}

ListsUpTo(max, elements) == UNION {[1..m -> elements] : m \in 0..max}

\* what the judge may answer: index pairs inside the lists, outside them
\* (past the end, negative), fractional, null or missing, in any order and
\* with repetitions
JudgeEntries(annsA, annsB) ==
  {[aIndex |-> Whole(a), bIndex |-> Whole(b), reason |-> [by |-> "judge"]] :
     a \in 0..(Len(annsA) - 1), b \in 0..(Len(annsB) - 1)}
  \cup {[aIndex |-> Whole(Len(annsA)), bIndex |-> Whole(-1), reason |-> [by |-> "judge"]],
        [aIndex |-> Undefined, bIndex |-> Half, reason |-> [by |-> "judge"]],
        [aIndex |-> Null, bIndex |-> Whole(0), reason |-> [by |-> "judge"]]}

runnerVars == <<config, pc, events, i, phase, k, currentStep, gs, genResult, evalResult, newDoc, outputs, rb, report, result, nextId>>

CompareInit ==
  /\ cmp \in {[pc |-> "start", annsA |-> a, annsB |-> b, calls |-> 0,
               answer |-> [outcome |-> "none"], log |-> <<>>,
               matches |-> <<>>, metrics |-> [shared |-> -1]] :
                a \in ListsUpTo(MaxAnnsA, AnnotationPool),
                b \in ListsUpTo(MaxAnnsB, AnnotationPool)}
  /\ fn = NoApplication
  /\ config = [type |-> CONSISTENCY_ANNOTATION, runCount |-> 2, iterations |-> 0,
               activeResourceIds |-> {},
               refineConfig |-> [defined |-> FALSE, activeResourceIds |-> {}]]
  /\ pc = "entry"
  /\ events = <<>>
  /\ i = 0
  /\ phase = 1
  /\ k = 0
  /\ currentStep = NoDoc
  /\ gs = NoFrame
  /\ genResult = [text |-> 0]
  /\ evalResult = NoResult
  /\ newDoc = NoDoc
  /\ outputs = <<>>
  /\ rb = [i |-> 0, j |-> 0]
  /\ report = NoReport
  /\ result = "pending"
  /\ nextId = 1

\* compareAnnotations up to the await: the heuristic result is computed, then
\* matchAnnotationsWithGemini returns at once or issues the judging call
CompareAnnotationsBegin ==
  /\ cmp.pc = "start"
  /\ cmp' =
       IF NothingToCompare(cmp.annsA, cmp.annsB)
         THEN returned(cmp, [matches |-> <<>>,
                             note |-> [by |-> "No annotations to compare."]])
         ELSE [cmp EXCEPT !.pc = "judging", !.calls = @ + 1]
  /\ UNCHANGED <<fn, runnerVars>>

\* the judging call resolves; an unparsable text or one without a matches
\* array is the answer with no entry
MatchAnnotationsResolve ==
  /\ cmp.pc = "judging"
  /\ \E matches \in ListsUpTo(MaxMatches, JudgeEntries(cmp.annsA, cmp.annsB)) :
       LET kept == cleaned(matches, cmp.annsA, cmp.annsB)
           llmResult == [matches |-> kept,
                         note |-> IF kept # <<>> THEN kept[1].reason ELSE NoReason]
       IN cmp' = [returned(cmp, llmResult) EXCEPT
                    !.answer = [outcome |-> "ok", matches |-> matches]]
  /\ UNCHANGED <<fn, runnerVars>>

\* variant: the catch block of matchAnnotationsWithGemini does not call onLog
MatchAnnotationsReject_Silent ==
  /\ cmp.pc = "judging"
  /\ cmp' = [returned(cmp, [matches |-> <<>>,
                             note |-> [by |-> "Gemini comparison failed, fallback used."]])
               EXCEPT !.answer = [outcome |-> "rejected"]]
  /\ UNCHANGED <<fn, runnerVars>>

\* the judging call rejects: the catch block logs and answers no match
MatchAnnotationsReject ==
  /\ cmp.pc = "judging"
  /\ cmp' = [returned(cmp, [matches |-> <<>>,
                             note |-> [by |-> "Gemini comparison failed, fallback used."]])
               EXCEPT !.answer = [outcome |-> "rejected"],
                      !.log = Append(@, "Annotation match via Gemini failed; using fallback matching.")]
  /\ UNCHANGED <<fn, runnerVars>>

CompareNext ==
  \/ CompareAnnotationsBegin
  \/ MatchAnnotationsResolve
  \/ MatchAnnotationsReject

CompareSpec == CompareInit /\ [][CompareNext]_vars

(* --------------------- the score helpers on their own ------------------- *)
MaxQuoteLen == 3

\* the runner is not started while a helper is applied on its own
RunnerAtRest ==
  /\ config = [type |-> CONSISTENCY_ANNOTATION, runCount |-> 2, iterations |-> 0,
               activeResourceIds |-> {},
               refineConfig |-> [defined |-> FALSE, activeResourceIds |-> {}]]
  /\ pc = "entry"
  /\ events = <<>>
  /\ i = 0
  /\ phase = 1
  /\ k = 0
  /\ currentStep = NoDoc
  /\ gs = NoFrame
  /\ genResult = [text |-> 0]
  /\ evalResult = NoResult
  /\ newDoc = NoDoc
  /\ outputs = <<>>
  /\ rb = [i |-> 0, j |-> 0]
  /\ report = NoReport
  /\ result = "pending"
  /\ nextId = 1

\* tokens as tokenize produces them, and the sets jaccard may be given
TokenPool == {<<"a">>, <<"b">>, <<"a", "b">>}

\* the characters quotes are written with: two letters, one of them in
\* either case, and the blank
QuoteAlphabet == {"a", "A", "b", " "}

Quotes == ListsUpTo(MaxQuoteLen, QuoteAlphabet)

ScoreInit ==
  /\ fn \in {[pc |-> "start", name |-> "jaccard", a |-> a, b |-> b, value |-> <<-1, 1>>] :
               a \in SUBSET TokenPool, b \in SUBSET TokenPool}
         \cup {[pc |-> "start", name |-> "quoteOverlapScore", a |-> a, b |-> b, value |-> <<-1, 1>>] :
                  a \in Quotes, b \in Quotes}
  /\ cmp = NoComparison
  /\ RunnerAtRest

ApplyJaccard ==
  /\ fn.pc = "start"
  /\ fn.name = "jaccard"
  /\ fn' = [fn EXCEPT !.pc = "done", !.value = jaccard(fn.a, fn.b)]
  /\ UNCHANGED <<cmp, runnerVars>>

ApplyQuoteOverlapScore ==
  /\ fn.pc = "start"
  /\ fn.name = "quoteOverlapScore"
  /\ fn' = [fn EXCEPT !.pc = "done", !.value = quoteOverlapScore(fn.a, fn.b)]
  /\ UNCHANGED <<cmp, runnerVars>>

ScoreNext ==
  \/ ApplyJaccard
  \/ ApplyQuoteOverlapScore

ScoreSpec == ScoreInit /\ [][ScoreNext]_vars

(* ------------------------ calculateDiffStats ---------------------------- *)
MaxTextLen == 3

\* the characters old and new contents are written with: two letters and
\* the two characters line endings are made of
TextAlphabet == {"a", "b", "\r", "\n"}

Texts == ListsUpTo(MaxTextLen, TextAlphabet)

\* text.replace(/\r\n/g, '\n')
normalizeLineEndings(text) ==
  LET kept == {n \in DOMAIN text :
                 ~(text[n] = "\r" /\ n < Len(text) /\ text[n + 1] = "\n")}
  IN [m \in 1..Cardinality(kept) |-> text[Nth(kept, m)]]

\* what diffWords of the diff package may return for two texts: one
\* unchanged part for equal texts; otherwise a common start and a common end
\* of any admissible length, with the removed and the added middle between
diffWords(old, new) ==
  IF old = new THEN {<<[value |-> old, kind |-> "same"]>>}
  ELSE {SelectSeq(<<[value |-> SubSeq(old, 1, p), kind |-> "same"],
                    [value |-> SubSeq(old, p + 1, Len(old) - q), kind |-> "removed"],
                    [value |-> SubSeq(new, p + 1, Len(new) - q), kind |-> "added"],
                    [value |-> SubSeq(old, Len(old) - q + 1, Len(old)), kind |-> "same"]>>,
                  LAMBDA part : part.value # <<>>) :
          <<p, q>> \in {pq \in (0..Len(old)) \X (0..Len(old)) :
                          /\ pq[1] + pq[2] <= Len(old)
                          /\ pq[1] + pq[2] <= Len(new)
                          /\ SubSeq(old, 1, pq[1]) = SubSeq(new, 1, pq[1])
                          /\ SubSeq(old, Len(old) - pq[2] + 1, Len(old))
                               = SubSeq(new, Len(new) - pq[2] + 1, Len(new))}}

\* variant: the texts are compared as they are given
calculateDiff_Raw(oldText, newText) ==
  IF oldText = <<>> /\ newText = <<>> THEN {<<>>}
  ELSE IF oldText = <<>> THEN {<<[value |-> newText, kind |-> "added"]>>}
  ELSE IF newText = <<>> THEN {<<[value |-> oldText, kind |-> "removed"]>>}
  ELSE diffWords(oldText, newText)

\* the part lists calculateDiff may return
calculateDiff(oldText, newText) ==
  IF oldText = <<>> /\ newText = <<>> THEN {<<>>}
  ELSE IF oldText = <<>> THEN {<<[value |-> newText, kind |-> "added"]>>}
  ELSE IF newText = <<>> THEN {<<[value |-> oldText, kind |-> "removed"]>>}
  ELSE diffWords(normalizeLineEndings(oldText), normalizeLineEndings(newText))

\* the sum of the lengths of the parts of one kind
RECURSIVE LengthOf(_, _)
LengthOf(parts, kind) ==
  IF parts = <<>> THEN 0
  ELSE (IF Head(parts).kind = kind THEN Len(Head(parts).value) ELSE 0)
       + LengthOf(Tail(parts), kind)

\* the DiffStats computed from the parts; changeRatio in ten-thousandths
DiffStats(parts, newText) ==
  LET addedLength == LengthOf(parts, "added")
      removedLength == LengthOf(parts, "removed")
      totalLen == IF Len(newText) = 0 THEN 1 ELSE Len(newText)
  IN [additions |-> Len(SelectSeq(parts, LAMBDA part : part.kind = "added")),
      deletions |-> Len(SelectSeq(parts, LAMBDA part : part.kind = "removed")),
      addedLength |-> addedLength,
      removedLength |-> removedLength,
      changeRatio |-> Rounded(<<addedLength + removedLength, totalLen>>, 10000)]

DiffInit ==
  /\ fn \in {[pc |-> "start", name |-> "calculateDiffStats", oldText |-> old,
               newText |-> new, value |-> [additions |-> -1]] :
               old \in Texts, new \in Texts}
  /\ cmp = NoComparison
  /\ RunnerAtRest

ApplyCalculateDiffStats ==
  /\ fn.pc = "start"
  /\ fn.name = "calculateDiffStats"
  /\ \E parts \in calculateDiff(fn.oldText, fn.newText) :
       fn' = [fn EXCEPT !.pc = "done", !.value = DiffStats(parts, fn.newText)]
  /\ UNCHANGED <<cmp, runnerVars>>

DiffNext == ApplyCalculateDiffStats

DiffSpec == DiffInit /\ [][DiffNext]_vars

(* ---------------------- parseStepByStepSegments ------------------------- *)
\* A generation output is a sequence of lexical units: the brackets "[[" and
\* "]]", the slash, the tag names, single whitespace characters and words.
MaxPieces == 4

TagNames == {"THOUGHT", "TEXT"}

\* text.trim()
trim(text) ==
  LET solid == {n \in DOMAIN text : text[n] \notin Whitespace}
  IN IF solid = {} THEN <<>>
     ELSE SubSeq(text, CHOOSE n \in solid : \A m \in solid : n <= m,
                       CHOOSE n \in solid : \A m \in solid : n >= m)

\* normalized.replace(pattern, prefix + tag) for the pattern
\* /(^|[^\[])\s*(name\]\])/gi, name given as the units it is made of: the
\* text from position lo on, where from is the next position at which the
\* name is looked for. A match starts at the unit before the whitespace that
\* precedes the name unless that unit is "[[" or belongs to the match before;
\* then at the first whitespace character, or at the start of the text.
RECURSIVE replaceFrom(_, _, _, _, _)
replaceFrom(text, name, tag, lo, from) ==
  IF from + Len(name) - 1 > Len(text) THEN SubSeq(text, lo, Len(text))
  ELSE IF SubSeq(text, from, from + Len(name) - 1) # name
    THEN replaceFrom(text, name, tag, lo, from + 1)
  ELSE LET r == CHOOSE q \in lo..from :
                  /\ \A m \in q..(from - 1) : text[m] \in Whitespace
                  /\ q = lo \/ text[q - 1] \notin Whitespace
           prefixEnd == IF r > lo /\ text[r - 1] # "[[" THEN r - 1
                        ELSE IF r = 1 THEN 0
                        ELSE IF r < from THEN r
                        ELSE -1
       IN IF prefixEnd = -1 THEN replaceFrom(text, name, tag, lo, from + 1)
          ELSE SubSeq(text, lo, prefixEnd) \o tag
                 \o replaceFrom(text, name, tag, from + Len(name), from + Len(name))

ensureBracket(text, name, tag) == replaceFrom(text, name, tag, 1, 1)

normalizeStepTags(input) ==
  ensureBracket(
    ensureBracket(
      ensureBracket(
        ensureBracket(input, <<"THOUGHT", "]]">>, <<"[[", "THOUGHT", "]]">>),
        <<"/", "THOUGHT", "]]">>, <<"[[", "/", "THOUGHT", "]]">>),
      <<"TEXT", "]]">>, <<"[[", "TEXT", "]]">>),
    <<"/", "TEXT", "]]">>, <<"[[", "/", "TEXT", "]]">>)

\* the first position from p on that holds no whitespace
SkipWhitespace(text, p) ==
  CHOOSE q \in p..(Len(text) + 1) :
    /\ q = Len(text) + 1 \/ text[q] \notin Whitespace
    /\ \A m \in p..(q - 1) : text[m] \in Whitespace

\* a match of tagRegex, /\[\[\s*(\/)?\s*(THOUGHT|TEXT)\s*\]\]/gi, at position s
TagAt(text, s) ==
  LET slash == SkipWhitespace(text, s + 1)
      isClosing == slash <= Len(text) /\ text[slash] = "/"
      name == IF isClosing THEN SkipWhitespace(text, slash + 1) ELSE slash
      close == SkipWhitespace(text, name + 1)
  IN IF /\ text[s] = "[["
        /\ name <= Len(text) /\ text[name] \in TagNames
        /\ close <= Len(text) /\ text[close] = "]]"
       THEN [found |-> TRUE, index |-> s, isClosing |-> isClosing,
             tagName |-> text[name], last |-> close]
       ELSE [found |-> FALSE]

\* the matches tagRegex.exec finds in the text, in order
TagMatches(text) ==
  LET starts == {s \in DOMAIN text : TagAt(text, s).found}
  IN [n \in 1..Cardinality(starts) |-> TagAt(text, Nth(starts, n))]

NotParsing ==
  [currentThought |-> <<>>, currentText |-> <<>>, readingThought |-> FALSE,
   readingText |-> FALSE, lastIndex |-> 1, segments |-> <<>>]

flushSegment(st) ==
  LET thought == trim(st.currentThought)
      text == trim(st.currentText)
  IN [st EXCEPT !.segments = IF thought # <<>> \/ text # <<>>
                               THEN Append(@, [thought |-> thought, text |-> text])
                               ELSE @,
                !.currentThought = <<>>,
                !.currentText = <<>>,
                !.readingThought = FALSE,
                !.readingText = FALSE]

\* the chunk up to position upTo goes to the block that is being read
withChunk(normalized, st, upTo) ==
  LET chunk == SubSeq(normalized, st.lastIndex, upTo)
  IN IF st.readingThought THEN [st EXCEPT !.currentThought = @ \o chunk]
     ELSE IF st.readingText THEN [st EXCEPT !.currentText = @ \o chunk]
     ELSE st

\* the branches of the loop body for a tag, st holding the chunk before it
afterTag(st, match) ==
  IF ~match.isClosing
    THEN IF match.tagName = "THOUGHT"
           THEN [(IF st.readingText \/ trim(st.currentText) # <<>>
                    THEN flushSegment(st) ELSE st)
                  EXCEPT !.readingThought = TRUE, !.readingText = FALSE]
           ELSE LET flushed == IF st.readingText /\ (trim(st.currentThought) # <<>>
                                                     \/ trim(st.currentText) # <<>>)
                                 THEN flushSegment(st) ELSE st
                IN [flushed EXCEPT
                      !.readingThought = @ /\ trim(flushed.currentText) # <<>>,
                      !.readingText = TRUE]
    ELSE IF match.tagName = "THOUGHT"
           THEN [st EXCEPT !.readingThought = FALSE]
           ELSE IF st.readingThought /\ ~st.readingText /\ trim(st.currentText) = <<>>
                  THEN [st EXCEPT !.readingThought = FALSE]
                ELSE IF st.readingText
                  THEN flushSegment([st EXCEPT !.readingText = FALSE])
                ELSE IF trim(st.currentThought) # <<>> \/ trim(st.currentText) # <<>>
                  THEN flushSegment(st)
                ELSE st

\* one pass of the while loop
loopBody(normalized, st, match) ==
  Only({[afterTag(chunked, match) EXCEPT !.lastIndex = match.last + 1] :
          chunked \in {withChunk(normalized, st, match.index - 1)}})

\* the while loop from the n-th match on
RECURSIVE loopFrom(_, _, _, _)
loopFrom(normalized, matches, n, st) ==
  IF n > Len(matches) THEN st
  ELSE Only({loopFrom(normalized, matches, n + 1, next) :
               next \in {loopBody(normalized, st, matches[n])}})

\* the segments collected by the loop and from the remainder after it
collected(normalized) ==
  Only({(IF trim(st.currentThought) # <<>> \/ trim(st.currentText) # <<>>
           THEN flushSegment(st) ELSE st).segments :
          st \in {Only({withChunk(normalized, looped, Len(normalized)) :
                   looped \in {Only({loopFrom(normalized, matches, 1, NotParsing) :
                                 matches \in {TagMatches(normalized)}})}})}})

\* variant: a text without segments gives no segment
segmentsOf_NoFallback(normalized) == collected(normalized)

\* what parseStepByStepSegments returns for the normalized input
segmentsOf(normalized) ==
  Only({IF segments = <<>> /\ trim(normalized) # <<>>
          THEN <<[thought |-> <<>>, text |-> trim(normalized)]>>
          ELSE segments :
        segments \in {collected(normalized)}})

parseStepByStepSegments(input) ==
  Only({segmentsOf(normalized) : normalized \in {normalizeStepTags(input)}})

\* segments.join("\n\n"), for the non-empty texts of the segments
RECURSIVE join(_)
join(texts) ==
  IF Len(texts) = 1 THEN texts[1]
  ELSE texts[1] \o <<"\n", "\n">> \o join(Tail(texts))

\* replace(/\n{3,}/g, "\n\n")
squeezeNewlines(text) ==
  LET kept == {n \in DOMAIN text :
                 ~(n >= 3 /\ text[n] = "\n" /\ text[n - 1] = "\n" /\ text[n - 2] = "\n")}
  IN [m \in 1..Cardinality(kept) |-> text[Nth(kept, m)]]

\* what generateNarrative makes of the raw text for the step-by-step method
stepByStepResult(rawText, segments) ==
  LET nonEmpty(field) ==
        LET filled == SelectSeq(segments, LAMBDA seg : seg[field] # <<>>)
        IN [n \in DOMAIN filled |-> filled[n][field]]
      textSegments == nonEmpty("text")
  IN [segments |-> segments,
      thoughts |-> nonEmpty("thought"),
      text |-> IF textSegments # <<>> THEN trim(squeezeNewlines(join(textSegments)))
               ELSE trim(rawText)]

\* the pieces outputs are put together from: words, whitespace, well-formed
\* tags, closing tags with a blank before the brackets, and tags that lack
\* their opening brackets
StepPieces ==
  {<<"a">>, <<"b">>, <<" ">>, <<"\n", "\n", "\n">>,
   <<"[[", "THOUGHT", "]]">>, <<"[[", "TEXT", "]]">>,
   <<"[[", "/", "THOUGHT", "]]">>, <<"[[", "/", "TEXT", "]]">>,
   <<"[[", "/", "THOUGHT", " ", "]]">>, <<"[[", "/", "TEXT", " ", "]]">>,
   <<"THOUGHT", "]]">>, <<"TEXT", "]]">>}

RECURSIVE Flatten(_)
Flatten(pieces) ==
  IF pieces = <<>> THEN <<>> ELSE Head(pieces) \o Flatten(Tail(pieces))

\* extractTextFromResponse returns the output trimmed
RawTexts ==
  {text \in {Flatten(pieces) : pieces \in ListsUpTo(MaxPieces, StepPieces)} :
     trim(text) = text}

ParseInit ==
  /\ fn \in {[pc |-> "start", name |-> "generateNarrative", rawText |-> rawText,
               value |-> [segments |-> <<>>]] : rawText \in RawTexts}
  /\ cmp = NoComparison
  /\ RunnerAtRest

\* the step-by-step branch of generateNarrative once the oracle has answered
ApplyStepByStepParsing ==
  /\ fn.pc = "start"
  /\ fn.name = "generateNarrative"
  /\ fn' = [fn EXCEPT !.pc = "done",
                      !.value = Only({stepByStepResult(fn.rawText, segments) :
                                   segments \in {parseStepByStepSegments(fn.rawText)}})]
  /\ UNCHANGED <<cmp, runnerVars>>

ParseNext == ApplyStepByStepParsing

ParseSpec == ParseInit /\ [][ParseNext]_vars

(* ------------------------ reading the history -------------------------- *)
LastEvent == events[Len(events)]

IsStatus(e, runId, status) ==
  e.type = "status" /\ e.runId = runId /\ e.status = status

Terminal == {"completed", "failed"}

\* the run ids reported through onStatusChange so far
RunIds == {e.runId : e \in {EventsOf("status")[n] : n \in DOMAIN EventsOf("status")}}

Completed(runId) ==
  \E n \in DOMAIN events : IsStatus(events[n], runId, "completed")

CompletedRuns == {r \in RunIds : Completed(r)}

\* the nodes published for a run through onUpdateRun, in publication order
ChainOf(runId) ==
  LET published == SelectSeq(events, LAMBDA e : e.type = "node" /\ e.runId = runId)
  IN [n \in DOMAIN published |-> published[n].node]

IsLinearChain(chain) ==
  \A n \in DOMAIN chain :
    chain[n].parentId = (IF n = 1 THEN 0 ELSE chain[n - 1].id)

\* the reply at position n answers a call issued inside a generation step
IsStepReply(n, outcome) ==
  /\ n >= 2
  /\ events[n].type = "reply"
  /\ events[n].outcome = outcome
  /\ events[n - 1].type = "call"
  /\ events[n - 1].site = "step"

GenerationRejected ==
  \E n \in DOMAIN events :
    IsStepReply(n, "rejected") /\ events[n].kind = "generation"

(* ------------------------------- claims -------------------------------- *)
\* C1: once runExperimentLoop has returned, every run that was reported
\* 'running' has afterwards been reported 'completed' or 'failed'.
C1_StartedRunsEndTerminal ==
  result # "pending" =>
    \A n \in DOMAIN events :
      (events[n].type = "status" /\ events[n].status = "running") =>
        \E m \in DOMAIN events :
          /\ m > n
          /\ events[m].type = "status"
          /\ events[m].runId = events[n].runId
          /\ events[m].status \in Terminal

\* C2: per run id the reported statuses are monotonic and terminal: nothing
\* is reported for a run id after 'completed' or 'failed' was reported for
\* it, and a terminal status is reported only after 'running'.
C2_StatusMonotonicTerminal ==
  LET st == EventsOf("status")
  IN \A m \in DOMAIN st :
       /\ \A n \in 1..(m - 1) :
            ~(st[n].runId = st[m].runId /\ st[n].status \in Terminal)
       /\ st[m].status \in Terminal =>
            \E n \in 1..(m - 1) : IsStatus(st[n], st[m].runId, "running")

C2_Witness ==
  /\ pc = "done"
  /\ Cardinality(CompletedRuns) >= 3

C3_AbortState ==
  \A n \in DOMAIN events :
    (IsStepReply(n, "rejected") /\ events[n].kind = "generation") =>
      /\ n = Len(events)
      /\ pc = "done"
      /\ result = "undefined"
      /\ ~report.built

C3_NoRollback ==
  /\ Len(events') >= Len(events)
  /\ SubSeq(events', 1, Len(events)) = events

C4_RejectedCallAbortsStep ==
  \A n \in DOMAIN events :
    IsStepReply(n, "rejected") =>
      /\ n = Len(events)
      /\ result = "undefined"

\* C5: a malformed evaluation payload is tolerated: the step goes on, returns
\* exactly one node whose annotation list and score map are empty, and the
\* protocol continues at the caller of the step.
C5_Tolerated ==
  (events # <<>> /\ IsStepReply(Len(events), "malformed")) =>
    /\ pc = "evalDelay"
    /\ result = "pending"
    /\ evalResult = NoResult

C5_EmptyNode ==
  (pc = "evalDelay" /\ IsStepReply(Len(events), "malformed")) =>
    /\ nextId' = nextId + 1
    /\ newDoc'.id = nextId
    /\ newDoc'.annotations = <<>>
    /\ newDoc'.scores = <<>>
    /\ pc' \in {"rlRet", "sbsRet", "ctRet", "caLoop"}
    /\ result' = "pending"

C6_ZeroIterationsOneNode ==
  (config.type = CONVERGENCE /\ config.iterations = 0) =>
    /\ \A r \in RunIds : Len(ChainOf(r)) <= 1
    /\ \A r \in CompletedRuns :
         /\ Len(ChainOf(r)) = 1
         /\ ChainOf(r)[1].parentId = 0

C6_Witness ==
  /\ config.type = CONVERGENCE
  /\ config.iterations = 0
  /\ pc = "done"
  /\ Cardinality(CompletedRuns) >= 2

\* C7: a Convergence run with K iterations publishes exactly K+1 nodes that
\* form one linear chain: the first has no parent, every later one has the
\* node published just before it in the run as its parent.
C7_ConvergenceLinearChain ==
  config.type = CONVERGENCE =>
    /\ \A r \in RunIds :
         /\ IsLinearChain(ChainOf(r))
         /\ Len(ChainOf(r)) <= config.iterations + 1
    /\ \A r \in CompletedRuns : Len(ChainOf(r)) = config.iterations + 1

C7_Witness ==
  /\ config.type = CONVERGENCE
  /\ config.iterations >= 2
  /\ \E r \in CompletedRuns : Len(ChainOf(r)) = config.iterations + 1

\* C8: in every Comparative repetition the Step-by-Step run has published its
\* single node (step-by-step method, no parent) and is reported 'completed'
\* before the Refinement Loop run is reported 'running' or issues a call; the
\* Refinement Loop run then publishes a full chain of K+1 nodes.
C8_StepByStepBeforeLoop ==
  config.type = COMPARATIVE =>
    /\ \A m \in DOMAIN events :
         (events[m].type \in {"status", "call", "node"}
            /\ events[m].runId[1] = "Refinement Loop") =>
           LET sbs == getRunIdByLabel("Step-by-Step", events[m].runId[2])
           IN /\ \E n \in 1..(m - 1) :
                   /\ IsStatus(events[n], sbs, "completed")
                   /\ \E l \in 1..(n - 1) :
                        events[l].type = "node" /\ events[l].runId = sbs
              /\ Len(ChainOf(sbs)) = 1
              /\ ChainOf(sbs)[1].method = STEP_BY_STEP
              /\ ChainOf(sbs)[1].parentId = 0
    /\ \A r \in CompletedRuns :
         r[1] = "Refinement Loop" =>
           /\ Len(ChainOf(r)) = config.iterations + 1
           /\ IsLinearChain(ChainOf(r))

C8_Witness ==
  /\ config.type = COMPARATIVE
  /\ config.iterations >= 1
  /\ pc = "done"
  /\ Completed(getRunIdByLabel("Refinement Loop", 1))

C10_TextConsistencyShape ==
  config.type = CONSISTENCY_TEXT =>
    LET M == Max(2, config.runCount)
        labels == {VariantLabel(v) : v \in 1..M}
    IN /\ (pc = "done" /\ ~GenerationRejected) => result = "report"
       /\ result = "report" =>
            /\ RunIds = {getRunIdByLabel(VariantLabel(v), v - 1) : v \in 1..M}
            /\ Cardinality(RunIds) = M
            /\ \A r \in RunIds :
                 /\ Completed(r)
                 /\ Len(ChainOf(r)) = 1
                 /\ ChainOf(r)[1].parentId = 0
                 /\ Len(SelectSeq(events, LAMBDA e :
                          e.type = "call" /\ e.kind = "generation" /\ e.runId = r)) = 1
            /\ Len(report.textPairs) = (M * (M - 1)) \div 2
            /\ {report.textPairs[n].pairLabel : n \in DOMAIN report.textPairs}
                 = {<<VariantLabel(q[1]), VariantLabel(q[2])>> :
                      q \in {x \in (1..M) \X (1..M) : x[1] < x[2]}}

C10_Witness ==
  /\ config.type = CONSISTENCY_TEXT
  /\ config.runCount = 3
  /\ result = "report"
  /\ Len(report.textPairs) = 3

(* --------------------- history of the oracle calls ---------------------- *)
IsCall(n, kinds, sites) ==
  /\ n \in DOMAIN events
  /\ events[n].type = "call"
  /\ events[n].kind \in kinds
  /\ events[n].site \in sites

OracleKinds == {"generation", "evaluation", "highlight", "judge", "commentary"}
CallSites == {"step", "pass", "report", "protocol"}

\* the sequence number of the call at position n: the value its answer carries
CallOrdinal(n) ==
  Len(SelectSeq(SubSeq(events, 1, n), LAMBDA e : e.type = "call"))

\* the positions at which the runner is suspended on an oracle call / a delay
AwaitingCall == {"gen", "eval", "caEval", "highlight", "judge", "commentary"}
AwaitingDelay == {"genDelay", "evalDelay", "ctDelay", "caDelay"}

\* C11: in ConsistencyAnnotation there is one content-generation call for the
\* whole protocol; every published node carries the content that call
\* answered, and its annotations and scores are those of the one evaluation
\* call made for its own variant; a finished protocol has published one node
\* for each of the M >= 2 variants.
C11_OneBaseManyEvaluations ==
  config.type = CONSISTENCY_ANNOTATION =>
    LET generations == {n \in DOMAIN events : IsCall(n, {"generation"}, CallSites)}
        nodes == {n \in DOMAIN events : events[n].type = "node"}
    IN /\ Cardinality(generations) <= 1
       /\ \A m \in nodes :
            LET node == events[m].node
                ok == events[m - 1].outcome = "ok"
            IN /\ IsCall(m - 2, {"evaluation"}, {"pass"})
               /\ events[m - 2].runId = events[m].runId
               /\ events[m - 1].type = "reply"
               /\ Cardinality({c \in DOMAIN events :
                     IsCall(c, {"evaluation"}, {"pass"})
                       /\ events[c].runId = events[m].runId}) = 1
               /\ \E g \in generations : node.content = CallOrdinal(g)
               /\ node.annotations =
                    (IF ok THEN <<[quote |-> CallOrdinal(m - 2), author |-> "AI_EVALUATOR"]>>
                     ELSE <<>>)
               /\ node.scores = (IF ok THEN [c \in {"c1"} |-> [AI |-> 70]] ELSE <<>>)
       /\ result = "report" =>
            /\ Cardinality(generations) = 1
            /\ variantCount >= 2
            /\ Cardinality(nodes) = variantCount
            /\ Cardinality({events[m].runId : m \in nodes}) = variantCount

C11_Witness ==
  /\ config.type = CONSISTENCY_ANNOTATION
  /\ config.runCount = 3
  /\ result = "report"
  /\ Len(EventsOf("node")) = 3

\* C12 as stated: the node created by a generation step is published before
\* the next generation step starts and before its run is reported 'completed'.
C12_PublishedPerStep ==
  \A c \in DOMAIN events :
    IsCall(c, {"generation"}, {"step"}) =>
      \A m \in DOMAIN events :
        (/\ m > c
         /\ \/ IsCall(m, {"generation"}, {"step"})
            \/ IsStatus(events[m], events[c].runId, "completed")) =>
          \E n \in (c + 1)..(m - 1) :
            /\ events[n].type = "node"
            /\ events[n].node.runId = events[c].runId
            /\ events[n].node.content = CallOrdinal(c)

\* C13 as stated: the parentId of a published node, when present, is the id
\* of a node published earlier.
C13_ParentPublishedEarlier ==
  \A m \in DOMAIN events :
    (events[m].type = "node" /\ events[m].node.parentId # 0) =>
      \E n \in 1..(m - 1) :
        events[n].type = "node" /\ events[n].node.id = events[m].node.parentId

\* C14 as stated: between an oracle call and the next oracle call a pacing
\* delay has elapsed.
C14_DelayAfterEveryCall ==
  \A c \in DOMAIN events :
    \A m \in DOMAIN events :
      (c < m /\ IsCall(c, OracleKinds, CallSites) /\ IsCall(m, OracleKinds, CallSites)) =>
        \E n \in (c + 1)..(m - 1) : events[n].type = "delay"

\* C15: at most one oracle call is outstanding at any time: the calls and
\* their answers alternate, a call is issued only when no call is awaited,
\* and a step taken while a pacing delay is pending first lets it elapse.
C15_State ==
  /\ Count("call") - Count("reply") = (IF pc \in AwaitingCall THEN 1 ELSE 0)
  /\ \A c \in DOMAIN events :
       \A m \in DOMAIN events :
         (c < m /\ IsCall(c, OracleKinds, CallSites) /\ IsCall(m, OracleKinds, CallSites)) =>
           \E n \in (c + 1)..(m - 1) : events[n].type = "reply"

C15_Step ==
  /\ pc \in AwaitingDelay =>
       /\ Len(events') > Len(events)
       /\ events'[Len(events) + 1].type = "delay"
  /\ Len(SelectSeq(events', LAMBDA e : e.type = "call")) > Count("call") =>
       /\ pc \notin AwaitingCall
       /\ Len(SelectSeq(events', LAMBDA e : e.type = "call")) = Count("call") + 1

C15_OneCallOutstanding == []C15_State /\ [][C15_Step]_vars

C15_Witness ==
  /\ pc = "judge"
  /\ Len(SelectSeq(events, LAMBDA e : e.type = "call" /\ e.kind = "judge")) >= 2

\* C16: runExperimentLoop returns a report exactly when the protocol is one of
\* the two consistency types and no generation step failed; every other
\* execution returns undefined, and nothing is returned before the end.
C16_ReportIffConsistencyRanToEnd ==
  /\ pc # "done" => result = "pending"
  /\ pc = "done" =>
       /\ result \in {"report", "undefined"}
       /\ result = "report" <=>
            (config.type \in {CONSISTENCY_TEXT, CONSISTENCY_ANNOTATION}
               /\ ~GenerationRejected)
       /\ result = "report" => report.built

C16_Witness ==
  /\ config.type = CONSISTENCY_ANNOTATION
  /\ pc = "done"
  /\ result = "report"
  /\ \E n \in DOMAIN events : events[n].type = "reply" /\ events[n].outcome = "rejected"

\* C17 as stated: a published ConsistencyText node still holds the annotation
\* that the evaluation of its generation step produced, whatever the
\* highlighting call answered.
C17_HighlightsMerged ==
  config.type = CONSISTENCY_TEXT =>
    \A m \in DOMAIN events :
      events[m].type = "node" =>
        \A c \in DOMAIN events :
          (/\ IsCall(c, {"evaluation"}, {"step"})
           /\ events[c].runId = events[m].runId
           /\ events[c + 1].outcome = "ok") =>
            \E a \in DOMAIN events[m].node.annotations :
              /\ events[m].node.annotations[a].quote = CallOrdinal(c)
              /\ events[m].node.annotations[a].author = "AI_EVALUATOR"

(* -------------------- reading a finished comparison --------------------- *)
\* an entry of the judge's answer that the integrity filter keeps: its
\* indices, as numbers, name one annotation of each list
NamesAPair(m, annsA, annsB) ==
  /\ Number(m.aIndex).isInteger /\ Number(m.aIndex).v \in 0..(Len(annsA) - 1)
  /\ Number(m.bIndex).isInteger /\ Number(m.bIndex).v \in 0..(Len(annsB) - 1)

\* the six figures as they follow from the heuristic matches and their scores
FiguresOf(found, annsA, annsB) ==
  LET shared == Len(found)
      longest == Max(Len(annsA), Len(annsB))
      mean(field) ==
        IF shared = 0 THEN 0
        ELSE LET sum == Total([n \in DOMAIN found |-> found[n][field]])
             IN Rounded(<<sum[1], sum[2] * shared>>, 1000)
  IN [shared |-> shared,
      onlyA |-> Len(annsA) - shared,
      onlyB |-> Len(annsB) - Cardinality({found[n].bIndex : n \in DOMAIN found}),
      sharedFraction |-> IF longest = 0 THEN Zero ELSE Fraction(shared, longest),
      averageQuoteOverlap |-> mean("quoteScore"),
      averageCommentSimilarity |-> mean("commentScore")]

HeuristicFigures(annsA, annsB) ==
  Only({FiguresOf(found, annsA, annsB) :
          found \in {fallbackAnnotationMatches(annsA, annsB)}})

\* the six figures of the metrics a comparison reported
Figures(metrics) ==
  [f \in {"shared", "onlyA", "onlyB", "sharedFraction", "averageQuoteOverlap",
          "averageCommentSimilarity"} |-> metrics[f]]

\* C18: when the judge answers and none of its entries names a pair of the
\* two lists, the six reported figures are those of the heuristic matcher.
C18_NoJudgeMatchKeepsHeuristic ==
  (/\ cmp.pc = "done"
   /\ cmp.answer.outcome = "ok"
   /\ \A n \in DOMAIN cmp.answer.matches :
        ~NamesAPair(cmp.answer.matches[n], cmp.annsA, cmp.annsB)) =>
    Figures(cmp.metrics) = HeuristicFigures(cmp.annsA, cmp.annsB)

C18_Witness ==
  /\ cmp.pc = "done"
  /\ cmp.answer.outcome = "ok"
  /\ Len(cmp.answer.matches) = 2
  /\ \A n \in DOMAIN cmp.answer.matches :
       ~NamesAPair(cmp.answer.matches[n], cmp.annsA, cmp.annsB)
  /\ cmp.metrics.shared = 2

\* C19: when the judging call rejects, the comparison still finishes: its
\* figures are those of the heuristic matcher and one warning line has gone
\* through the log callback.
C19_JudgeFailureFallsBack ==
  (cmp.pc # "start" /\ cmp.answer.outcome = "rejected") =>
    /\ cmp.pc = "done"
    /\ Figures(cmp.metrics) = HeuristicFigures(cmp.annsA, cmp.annsB)
    /\ cmp.log = <<"Annotation match via Gemini failed; using fallback matching.">>

C19_Witness ==
  /\ cmp.pc = "done"
  /\ cmp.answer.outcome = "rejected"
  /\ cmp.metrics.shared = 1
  /\ cmp.metrics.onlyB = 1

\* C20: with two empty annotation lists no judging call is issued and the
\* comparison reports shared = onlyA = onlyB = 0 and a shared fraction of 0.
C20_EmptyListsNoJudge ==
  (cmp.pc # "idle" /\ cmp.annsA = <<>> /\ cmp.annsB = <<>>) =>
    /\ cmp.calls = 0
    /\ cmp.pc \in {"start", "done"}
    /\ cmp.pc = "done" =>
         /\ cmp.metrics.shared = 0
         /\ cmp.metrics.onlyA = 0
         /\ cmp.metrics.onlyB = 0
         /\ cmp.metrics.sharedFraction = Zero

C20_Witness ==
  /\ cmp.pc = "done"
  /\ cmp.annsA = <<>>
  /\ cmp.annsB = <<>>
  /\ cmp.calls = 0

(* ----------------------- the alignment of two lists --------------------- *)
\* no annotation of either list is in more than one pair of the matches
OneToOne(matches) ==
  \A m, n \in DOMAIN matches :
    m # n => /\ matches[m].aIndex # matches[n].aIndex
             /\ matches[m].bIndex # matches[n].bIndex

\* C21: the matches compareAnnotations computes its metrics from pair no
\* annotation of list A and no annotation of list B more than once, whether
\* they come from the heuristic matcher or from the judge.
C21_AlignmentOneToOne == cmp.pc = "done" => OneToOne(cmp.matches)

\* the matched pairs by content: which annotation was paired with which
ContentPairs(matches, annsA, annsB) ==
  {<<annsA[matches[n].aIndex + 1], annsB[matches[n].bIndex + 1]>> : n \in DOMAIN matches}

\* the orders a list can be given in
Reorderings(list) ==
  {[n \in DOMAIN list |-> list[p[n]]] :
     p \in {q \in [DOMAIN list -> DOMAIN list] : \A m, n \in DOMAIN list : q[m] = q[n] => m = n}}

\* C22: the heuristic matcher pairs the same annotations, compared by
\* content, in whatever order the two lists are given.
C22_HeuristicOrderInvariant ==
  (cmp.pc = "done" /\ cmp.answer.outcome = "rejected") =>
    \A annsA \in Reorderings(cmp.annsA), annsB \in Reorderings(cmp.annsB) :
      ContentPairs(fallbackAnnotationMatches(annsA, annsB), annsA, annsB)
        = ContentPairs(cmp.matches, cmp.annsA, cmp.annsB)

(* ------------------------- the score helpers ---------------------------- *)
Applied(name) == fn.pc = "done" /\ fn.name = name

\* C23: jaccard gives the same value for its two sets in either order, a
\* value from 0 to 1, and 1 for a non-empty set compared with itself.
C23_JaccardSymmetricBounded ==
  Applied("jaccard") =>
    /\ SameValue(fn.value, jaccard(fn.b, fn.a))
    /\ ~Less(fn.value, Zero)
    /\ ~Less(One, fn.value)
    /\ (fn.a = fn.b /\ fn.a # {}) => SameValue(fn.value, One)

C23_Witness ==
  /\ Applied("jaccard")
  /\ Cardinality(fn.a) = 1
  /\ Cardinality(fn.b) = 2
  /\ fn.value = <<1, 2>>

\* C24 as stated: quoteOverlapScore gives the same value for its two quotes
\* in either order, and 1 whenever one quote contains the other verbatim.
C24_QuoteOverlapContainment ==
  Applied("quoteOverlapScore") =>
    /\ SameValue(fn.value, quoteOverlapScore(fn.b, fn.a))
    /\ (includes(fn.a, fn.b) \/ includes(fn.b, fn.a)) => SameValue(fn.value, One)

\* C24: quoteOverlapScore gives the same value for its two quotes in either
\* order; it is 1 whenever both quotes are non-empty and one contains the
\* other verbatim, and 0 whenever a quote is empty.
C24_QuoteOverlapNonEmptyContainment ==
  Applied("quoteOverlapScore") =>
    /\ SameValue(fn.value, quoteOverlapScore(fn.b, fn.a))
    /\ (fn.a # <<>> /\ fn.b # <<>> /\ (includes(fn.a, fn.b) \/ includes(fn.b, fn.a)))
         => SameValue(fn.value, One)
    /\ (fn.a = <<>> \/ fn.b = <<>>) => SameValue(fn.value, Zero)

C24_Witness ==
  /\ Applied("quoteOverlapScore")
  /\ fn.a = <<"a", " ", "b">>
  /\ fn.b = <<"b">>
  /\ fn.value = One

(* ----------------------------- diff statistics -------------------------- *)
\* C25 as stated: additions and deletions are never negative, and
\* changeRatio is 0 exactly when the old and the new content are equal.
C25_ChangeRatioZeroIffEqual ==
  Applied("calculateDiffStats") =>
    /\ fn.value.additions >= 0
    /\ fn.value.deletions >= 0
    /\ fn.value.changeRatio = 0 <=> fn.oldText = fn.newText

\* C25: additions and deletions are never negative, and changeRatio is 0
\* with nothing added or removed whenever the old and the new content are
\* equal or differ in their line endings only.
C25_ChangeRatioZeroWhenEqual ==
  Applied("calculateDiffStats") =>
    /\ fn.value.additions >= 0
    /\ fn.value.deletions >= 0
    /\ normalizeLineEndings(fn.oldText) = normalizeLineEndings(fn.newText) =>
         /\ fn.value.changeRatio = 0
         /\ fn.value.additions = 0
         /\ fn.value.deletions = 0

C25_Witness ==
  /\ Applied("calculateDiffStats")
  /\ fn.oldText = <<"a", "\r", "\n">>
  /\ fn.newText = <<"a", "\n">>
  /\ fn.value.changeRatio = 0

(* --------------------------- failed commentary -------------------------- *)
CommentaryRejected ==
  \E n \in DOMAIN events :
    /\ events[n].type = "reply"
    /\ events[n].kind = "commentary"
    /\ events[n].outcome = "rejected"

\* the number of unordered pairs of n runs
PairCount(n) == (n * (n - 1)) \div 2

\* C26: once the commentary call has failed, runExperimentLoop has returned
\* the consistency report: it holds an annotation comparison for every pair
\* of variants and, unless it is annotation-only, a text comparison for
\* every pair, the comparisons with the baseline and the breakdown of every
\* variant; its commentary is absent.
C26_CommentaryFailureKeepsReport ==
  CommentaryRejected =>
    /\ pc = "done"
    /\ result = "report"
    /\ report.built
    /\ report.commentary = 0
    /\ Len(report.annotationPairs) = PairCount(Len(outputs))
    /\ Len(report.textPairs) = (IF rb.annotationOnly THEN 0 ELSE PairCount(Len(outputs)))
    /\ Len(report.baselineComparisons) = (IF rb.annotationOnly THEN 0 ELSE Len(outputs) - 1)
    /\ Len(report.variantBreakdown) = (IF rb.annotationOnly THEN 0 ELSE Len(outputs))

C26_Witness ==
  /\ CommentaryRejected
  /\ config.type = CONSISTENCY_TEXT
  /\ result = "report"
  /\ Len(report.textPairs) = 3

(* --------------------------- step segments ------------------------------ *)
\* the stretches of text between the tags of a normalized output, and
\* between a tag and either end of it, trimmed; blank ones left out
Stretches(normalized) ==
  LET matches == TagMatches(normalized)
      first(n) == IF n = 0 THEN 1 ELSE matches[n].last + 1
      last(n) == IF n = Len(matches) THEN Len(normalized) ELSE matches[n + 1].index - 1
  IN {trim(SubSeq(normalized, first(n), last(n))) : n \in 0..Len(matches)} \ {<<>>}

\* C27: every non-blank stretch of text between two tags of the output, or
\* between a tag and the start or the end of the output, is found in the
\* thought or in the text of one of the parsed segments.
C27_NoContentLost ==
  Applied("generateNarrative") =>
    \A stretch \in Stretches(normalizeStepTags(fn.rawText)) :
      \E n \in DOMAIN fn.value.segments :
        \/ includes(fn.value.segments[n].thought, stretch)
        \/ includes(fn.value.segments[n].text, stretch)

\* the output is not blank and the parser collects no segment from it
Unparsable(rawText) ==
  /\ trim(normalizeStepTags(rawText)) # <<>>
  /\ collected(normalizeStepTags(rawText)) = <<>>

\* C28 as stated: for an output that cannot be parsed the parser returns one
\* segment with an empty thought and the whole trimmed output as text; the
\* content of the node is the full output and its reasoning trace is empty.
C28_UnparsableIsWholeOutput ==
  (Applied("generateNarrative") /\ Unparsable(fn.rawText)) =>
    /\ fn.value.segments = <<[thought |-> <<>>, text |-> trim(fn.rawText)]>>
    /\ fn.value.text = fn.rawText
    /\ fn.value.thoughts = <<>>

\* C28: for an output that cannot be parsed the parser returns one segment
\* with an empty thought and, as text, the whole output as normalizeStepTags
\* rewrote it, trimmed; the reasoning trace is empty and the content of the
\* node is that text with every run of three or more newlines cut to two,
\* which is the full output when neither rewriting changes it.
C28_UnparsableIsWholeNormalizedOutput ==
  (Applied("generateNarrative") /\ Unparsable(fn.rawText)) =>
    /\ fn.value.segments =
         <<[thought |-> <<>>, text |-> trim(normalizeStepTags(fn.rawText))]>>
    /\ fn.value.thoughts = <<>>
    /\ fn.value.text = trim(squeezeNewlines(trim(normalizeStepTags(fn.rawText))))
    /\ (normalizeStepTags(fn.rawText) = fn.rawText /\ squeezeNewlines(fn.rawText) = fn.rawText)
         => fn.value.text = fn.rawText

C28_Witness ==
  /\ Applied("generateNarrative")
  /\ Unparsable(fn.rawText)
  /\ fn.rawText = <<"a", " ", "THOUGHT", "]]">>
  /\ fn.value.text = <<"a", "[[", "THOUGHT", "]]">>

(* ------------------------- the dashboard's runs ------------------------- *)
\* the labels of the runs handleRun creates, in creation order
newRunLabels ==
  LET pairs(a, b) == [n \in 1..(2 * config.runCount) |-> IF n % 2 = 1 THEN a ELSE b]
  IN CASE config.type = COMPARATIVE -> pairs("Step-by-Step", "Refinement Loop")
       [] config.type = ABLATION -> pairs("Full Context", "Zero Context")
       [] config.type \in {CONSISTENCY_TEXT, CONSISTENCY_ANNOTATION} ->
            [n \in 1..Max(2, config.runCount) |-> VariantLabel(n)]
       [] OTHER -> [n \in 1..config.runCount |-> "Convergence"]

\* newRuns of handleRun. The resolver answers (label, index) with the id of
\* the run at that index among the created runs of that label, so a created
\* run is named by its label and its index among the runs of its label; any
\* other request is answered with a random UUID, the id of no created run.
newRuns ==
  [n \in DOMAIN newRunLabels |->
     [id |-> getRunIdByLabel(newRunLabels[n],
                             Cardinality({m \in 1..(n - 1) : newRunLabels[m] = newRunLabels[n]})),
      label |-> newRunLabels[n],
      status |-> "pending",
      stepIds |-> <<>>]]

CreatedIds == {newRuns[n].id : n \in DOMAIN newRuns}

\* the runs of the experiment after updateStatus and updateRunStep were
\* called as the history says: a call for an unknown run id changes no run
DashboardRuns ==
  [n \in DOMAIN newRuns |->
     LET statuses == SelectSeq(events, LAMBDA e : e.type = "status" /\ e.runId = newRuns[n].id)
     IN [newRuns[n] EXCEPT
           !.status = IF statuses = <<>> THEN @ ELSE statuses[Len(statuses)].status,
           !.stepIds = [m \in DOMAIN ChainOf(newRuns[n].id) |-> ChainOf(newRuns[n].id)[m].id]]]

NoOracleFailure ==
  \A n \in DOMAIN events : events[n].type = "reply" => events[n].outcome = "ok"

\* C29: every run id the runner reports is the id of a run the dashboard
\* created; every published node is in the lineage of exactly one created
\* run; and when no oracle call failed, every created run ends 'completed'
\* with a lineage that is not empty.
C29_RunsAreDashboardRuns ==
  /\ RunIds \subseteq CreatedIds
  /\ \A e \in DOMAIN events :
       events[e].type = "node" =>
         Cardinality({n \in DOMAIN DashboardRuns :
                        \E m \in DOMAIN DashboardRuns[n].stepIds :
                          DashboardRuns[n].stepIds[m] = events[e].node.id}) = 1
  /\ (pc = "done" /\ NoOracleFailure) =>
       \A n \in DOMAIN DashboardRuns :
         /\ DashboardRuns[n].status = "completed"
         /\ DashboardRuns[n].stepIds # <<>>

(* ----------------------- what the caller is returned -------------------- *)
Thrown(block) ==
  \E n \in DOMAIN events : events[n] = ThrowEvent(block)

\* C30 as stated: the promise of runExperimentLoop is never rejected, and
\* once an oracle call or a callback has failed it resolves to no report.
C30_NeverRejects ==
  /\ result # "rejected"
  /\ (pc = "done" /\ (Thrown("try") \/ ~NoOracleFailure)) => result = "undefined"

\* C30: the promise of runExperimentLoop is rejected only when onLog throws
\* inside the catch block. Otherwise a failed generation call or a callback
\* that throws makes it resolve to no report, as a non-consistency protocol
\* that ran to its end does; a failed call of another kind leaves the
\* returned value as it would have been; no run is ever reported 'failed'.
C30_RejectsOnlyWhenCatchLogThrows ==
  /\ result = "rejected" <=> Thrown("catch")
  /\ (pc = "done" /\ ~Thrown("catch")) =>
       IF GenerationRejected \/ Thrown("try")
            \/ config.type \notin {CONSISTENCY_TEXT, CONSISTENCY_ANNOTATION}
         THEN result = "undefined"
         ELSE result = "report"
  /\ \A n \in DOMAIN events : events[n].type = "status" => events[n].status # "failed"

C30_Witness ==
  /\ pc = "done"
  /\ result = "undefined"
  /\ Thrown("try")
  /\ ~Thrown("catch")
  /\ config.type = CONSISTENCY_TEXT
  /\ Count("node") = 0
  /\ Count("status") = 3

(* ------------------------ the heuristic matcher ------------------------- *)
\* the B-items the matches already made for earlier A-items have consumed
Consumed(matches, idxA) ==
  {matches[n].bIndex : n \in {m \in DOMAIN matches : matches[m].aIndex < idxA}}

\* the B-items an A-item may be matched to: not consumed and with a quote
\* overlap of at least 0.35
Eligible(matches, annsA, annsB, idxA) ==
  {idxB \in 0..(Len(annsB) - 1) :
     /\ idxB \notin Consumed(matches, idxA)
     /\ ~Less(quoteOverlapScore(annsA[idxA + 1].quote, annsB[idxB + 1].quote), <<35, 100>>)}

\* 0.65 * quoteOverlap + 0.35 * commentSimilarity of a pair, in hundredths
PairScore(annA, annB) ==
  Plus(<<65 * quoteOverlapScore(annA.quote, annB.quote)[1],
         quoteOverlapScore(annA.quote, annB.quote)[2]>>,
       <<35 * commentSimilarityScore(annA.comment, annB.comment)[1],
         commentSimilarityScore(annA.comment, annB.comment)[2]>>)

\* C31: the heuristic matches list the A-items in list order; an A-item with
\* no eligible B-item is in no match; an A-item with one is matched once, to
\* an eligible B-item of the highest score 0.65*quoteOverlap +
\* 0.35*commentSimilarity, the earliest of them; and every match has a quote
\* overlap of at least 0.35.
C31_HeuristicGreedyBest ==
  (cmp.pc = "done" /\ cmp.answer.outcome = "rejected") =>
    /\ \A m, n \in DOMAIN cmp.matches : m < n => cmp.matches[m].aIndex < cmp.matches[n].aIndex
    /\ \A n \in DOMAIN cmp.matches : ~Less(cmp.matches[n].quoteScore, <<35, 100>>)
    /\ \A idxA \in 0..(Len(cmp.annsA) - 1) :
         LET eligible == Eligible(cmp.matches, cmp.annsA, cmp.annsB, idxA)
             mine == {n \in DOMAIN cmp.matches : cmp.matches[n].aIndex = idxA}
             score(idxB) == PairScore(cmp.annsA[idxA + 1], cmp.annsB[idxB + 1])
         IN IF eligible = {} THEN mine = {}
            ELSE /\ Cardinality(mine) = 1
                 /\ \A n \in mine :
                      /\ cmp.matches[n].bIndex \in eligible
                      /\ cmp.matches[n].quoteScore =
                           quoteOverlapScore(cmp.annsA[idxA + 1].quote,
                                             cmp.annsB[cmp.matches[n].bIndex + 1].quote)
                      /\ \A idxB \in eligible :
                           /\ ~Less(score(cmp.matches[n].bIndex), score(idxB))
                           /\ idxB < cmp.matches[n].bIndex =>
                                Less(score(idxB), score(cmp.matches[n].bIndex))

\* the first A-item has no eligible B-item, the second passes over the first
\* B-item for a later one
C31_Witness ==
  /\ cmp.pc = "done"
  /\ cmp.answer.outcome = "rejected"
  /\ Len(cmp.annsA) = 2
  /\ Len(cmp.annsB) = 2
  /\ Len(cmp.matches) = 1
  /\ cmp.matches[1].aIndex = 1
  /\ cmp.matches[1].bIndex = 1
  /\ Eligible(cmp.matches, cmp.annsA, cmp.annsB, 1) = {0, 1}

(* --------------------------- the judge's pairs -------------------------- *)
\* an entry of the judge's answer whose two indices are integers inside the lists
IntegerInRange(m, annsA, annsB) ==
  /\ m.aIndex.json = "number" /\ m.aIndex.whole /\ m.aIndex.v \in 0..(Len(annsA) - 1)
  /\ m.bIndex.json = "number" /\ m.bIndex.whole /\ m.bIndex.v \in 0..(Len(annsB) - 1)

\* the index pairs of the entries of an answer that are integers inside the lists
IntegerPairs(matches, annsA, annsB) ==
  LET kept == SelectSeq(matches, LAMBDA m : IntegerInRange(m, annsA, annsB))
  IN [n \in DOMAIN kept |->
        [aIndex |-> kept[n].aIndex.v, bIndex |-> kept[n].bIndex.v, reason |-> kept[n].reason]]

\* C32: when the judge answers with at least one entry whose indices are
\* integers inside the two lists, the matches are exactly those entries, in
\* the judge's order, and the six figures are computed from them and not
\* from the heuristic matches; an entry with an index that is out of range
\* or not an integer is in no match.
C32_JudgePairsIntegerInRange ==
  (/\ cmp.pc = "done"
   /\ cmp.answer.outcome = "ok"
   /\ \E n \in DOMAIN cmp.answer.matches :
        IntegerInRange(cmp.answer.matches[n], cmp.annsA, cmp.annsB)) =>
    /\ cmp.matches = IntegerPairs(cmp.answer.matches, cmp.annsA, cmp.annsB)
    /\ Figures(cmp.metrics) =
         Figures(Compared(cmp.annsA, cmp.annsB, <<>>,
                          [matches |-> IntegerPairs(cmp.answer.matches, cmp.annsA, cmp.annsB),
                           note |-> NoReason]))

(* ------------------------- the reported counts -------------------------- *)
\* C33: whatever the two lists and whatever the judge answers, the reported
\* counts fit the lists: shared is at most the length of the shorter list,
\* shared + onlyA is the length of A, shared + onlyB is the length of B, and
\* sharedFraction is shared over the length of the longer list (0 for two
\* empty lists), a value from 0 to 1.
C33_MetricsConsistentCounts ==
  cmp.pc = "done" =>
    LET m == cmp.metrics
        longest == Max(Len(cmp.annsA), Len(cmp.annsB))
    IN /\ m.shared <= Len(cmp.annsA)
       /\ m.shared <= Len(cmp.annsB)
       /\ m.shared + m.onlyA = Len(cmp.annsA)
       /\ m.shared + m.onlyB = Len(cmp.annsB)
       /\ ~Less(m.sharedFraction, Zero)
       /\ ~Less(One, m.sharedFraction)
       /\ m.sharedFraction = IF longest = 0 THEN Zero ELSE Fraction(m.shared, longest)

(* ---------------------- the method of a generation step ----------------- *)
\* the generation step has chosen its method
MethodSelected == gs # NoFrame /\ gs.method # NoMethod

\* the generation step has just returned its node to its caller
StepReturned == pc \in {"rlRet", "sbsRet", "ctRet"} \/ (pc = "caLoop" /\ i = 0)

\* C34: a generation step with a predecessor uses the refinement method
\* whatever override it was passed; without one it uses the override it was
\* passed, and the standard method when it was passed none. The node it
\* returns has its method, has a parentId exactly when the method is
\* refinement, and has diff statistics exactly when it has a parentId.
C34_MethodRuleAndLineage ==
  /\ MethodSelected =>
       gs.method = CASE gs.previousStep # NoDoc -> REFINE_LOOP
                     [] gs.previousStep = NoDoc /\ gs.methodOverride # NoMethod -> gs.methodOverride
                     [] OTHER -> STANDARD
  /\ StepReturned =>
       /\ newDoc.method = gs.method
       /\ newDoc.parentId # 0 <=> newDoc.method = REFINE_LOOP
       /\ newDoc.diffStats.defined <=> newDoc.parentId # 0

\* a refinement step has returned a node with a parent after a step-by-step
\* run of the same execution published a node without one
C34_Witness ==
  /\ pc = "rlRet"
  /\ newDoc.method = REFINE_LOOP
  /\ newDoc.parentId # 0
  /\ newDoc.diffStats.defined
  /\ gs.methodOverride = REFINE_LOOP
  /\ \E n \in DOMAIN events :
       /\ events[n].type = "node"
       /\ events[n].node.method = STEP_BY_STEP
       /\ events[n].node.parentId = 0
       /\ ~events[n].node.diffStats.defined

(* ----------------------- the token usage of a step ---------------------- *)
MaxTokens == 1

\* a count the oracle's usage metadata does not state
Absent == -1

\* response.usageMetadata: three counts, each stated or not; or none at all
UsageMetadata ==
  [promptTokenCount : Absent..MaxTokens,
   candidatesTokenCount : Absent..MaxTokens,
   totalTokenCount : Absent..MaxTokens]
NoUsageMetadata == [stated |-> FALSE]

\* a tokenUsage that is undefined
NoTokenUsage == [defined |-> FALSE]

\* the tokenUsage generateNarrative and evaluateCoherence make of the
\* metadata: usage.promptTokenCount ?? 0 and so on, undefined without metadata
tokenUsageOf(usage) ==
  IF usage = NoUsageMetadata THEN NoTokenUsage
  ELSE [promptTokens |-> IF usage.promptTokenCount = Absent THEN 0 ELSE usage.promptTokenCount,
        outputTokens |-> IF usage.candidatesTokenCount = Absent THEN 0 ELSE usage.candidatesTokenCount,
        totalTokens |-> IF usage.totalTokenCount = Absent THEN 0 ELSE usage.totalTokenCount]

\* calls.reduce of buildStepTokenUsage, one count at a time
RECURSIVE SumOf(_, _)
SumOf(calls, count) ==
  IF calls = <<>> THEN 0 ELSE Head(calls)[count] + SumOf(Tail(calls), count)

buildStepTokenUsage(genUsage, evalUsage) ==
  LET entry(role, usage) ==
        IF usage = NoTokenUsage THEN <<>>
        ELSE <<[role |-> role, promptTokens |-> usage.promptTokens,
                outputTokens |-> usage.outputTokens, totalTokens |-> usage.totalTokens]>>
      calls == entry("generator", genUsage) \o entry("evaluator", evalUsage)
  IN IF Len(calls) = 0 THEN NoTokenUsage
     ELSE [calls |-> calls,
           aggregate |-> [promptTokens |-> SumOf(calls, "promptTokens"),
                          outputTokens |-> SumOf(calls, "outputTokens"),
                          totalTokens |-> SumOf(calls, "totalTokens")]]

UsageInit ==
  /\ fn = [pc |-> "gen", name |-> "buildStepTokenUsage"]
  /\ cmp = NoComparison
  /\ RunnerAtRest

\* the generation call of the step resolves, with usage metadata or without
StepGenerationResolves ==
  /\ fn.pc = "gen"
  /\ \E usage \in UsageMetadata \cup {NoUsageMetadata} :
       fn' = [pc |-> "eval", name |-> fn.name,
              genReported |-> usage, genUsage |-> tokenUsageOf(usage)]
  /\ UNCHANGED <<cmp, runnerVars>>

\* the rest of the step once evaluateCoherence has returned evalUsage
StepBuildsUsage(reported, outcome, evalUsage) ==
  fn' = [pc |-> "done", name |-> fn.name,
         genReported |-> fn.genReported, genUsage |-> fn.genUsage,
         evalReported |-> reported, evalOutcome |-> outcome, evalUsage |-> evalUsage,
         value |-> buildStepTokenUsage(fn.genUsage, evalUsage)]

\* the evaluation call resolves with a payload that parses
StepEvaluationResolves ==
  /\ fn.pc = "eval"
  /\ \E usage \in UsageMetadata \cup {NoUsageMetadata} :
       StepBuildsUsage(usage, "ok", tokenUsageOf(usage))
  /\ UNCHANGED <<cmp, runnerVars>>

\* the evaluation call resolves and JSON.parse throws: the catch block of
\* evaluateCoherence returns tokenUsage: undefined
StepEvaluationMalformed ==
  /\ fn.pc = "eval"
  /\ \E usage \in UsageMetadata \cup {NoUsageMetadata} :
       StepBuildsUsage(usage, "malformed", NoTokenUsage)
  /\ UNCHANGED <<cmp, runnerVars>>

\* the evaluation call rejects: no response, same catch block
StepEvaluationRejects ==
  /\ fn.pc = "eval"
  /\ StepBuildsUsage(NoUsageMetadata, "rejected", NoTokenUsage)
  /\ UNCHANGED <<cmp, runnerVars>>

UsageNext ==
  \/ StepGenerationResolves
  \/ StepEvaluationResolves
  \/ StepEvaluationMalformed
  \/ StepEvaluationRejects

UsageSpec == UsageInit /\ [][UsageNext]_vars

\* the entry of a call whose response stated this usage metadata
EntryOf(role, usage) ==
  IF usage = NoUsageMetadata THEN <<>>
  ELSE <<[role |-> role] @@ tokenUsageOf(usage)>>

\* C35: the usage record of a step holds one entry for the generation call
\* if its response reported usage and one for the evaluation call if its
\* response reported usage, and no other entry; its aggregate counts are the
\* sums over these entries; the step has no usage record when neither
\* response reported usage.
C35_UsageEntryPerReportingCall ==
  Applied("buildStepTokenUsage") =>
    LET entries == EntryOf("generator", fn.genReported) \o EntryOf("evaluator", fn.evalReported)
    IN IF entries = <<>> THEN fn.value = NoTokenUsage
       ELSE /\ fn.value # NoTokenUsage
            /\ fn.value.calls = entries
            /\ \A count \in {"promptTokens", "outputTokens", "totalTokens"} :
                 fn.value.aggregate[count] = SumOf(entries, count)

(* ------------------------ normalizeScores on its own -------------------- *)
MaxRawScores == 2

\* keys the evaluator may use: the id of the category, its name, another word
RawKeys == {"c1", "Coherence", "Other"}

\* values the evaluator may give: two numbers, and one that is no number
RawValues == {[isNumber |-> TRUE, v |-> 70], [isNumber |-> TRUE, v |-> 30], [isNumber |-> FALSE, v |-> 0]}

\* the entries of a rawScores object in the order of Object.keys: no key twice
RawScores ==
  {r \in ListsUpTo(MaxRawScores, [key : RawKeys, value : RawValues]) :
     \A m, n \in DOMAIN r : r[m].key = r[n].key => m = n}

NormalizeInit ==
  /\ fn \in {[pc |-> "start", name |-> "normalizeScores", rawScores |-> r, value |-> <<>>] :
               r \in RawScores}
  /\ cmp = NoComparison
  /\ RunnerAtRest

ApplyNormalizeScores ==
  /\ fn.pc = "start"
  /\ fn.name = "normalizeScores"
  /\ fn' = [fn EXCEPT !.pc = "done",
                      !.value = normalizeScores(evaluationCategories, fn.rawScores)]
  /\ UNCHANGED <<cmp, runnerVars>>

NormalizeNext == ApplyNormalizeScores

NormalizeSpec == NormalizeInit /\ [][NormalizeNext]_vars

\* the ids of the configured evaluation categories
CategoryIds == {evaluationCategories[n].id : n \in DOMAIN evaluationCategories}

\* the raw key is the id or the name of this category
Names(key, category) == category.id = key \/ category.name = key

\* the key an entry is stored under: the id of the first category the raw
\* key names, the raw key itself when it names none
StoredUnder(key) ==
  IF \E n \in DOMAIN evaluationCategories : Names(key, evaluationCategories[n])
    THEN evaluationCategories[CHOOSE n \in DOMAIN evaluationCategories :
                                /\ Names(key, evaluationCategories[n])
                                /\ \A m \in 1..(n - 1) : ~Names(key, evaluationCategories[m])].id
    ELSE key

C37_AnnotationOnlyReport ==
  (config.type = CONSISTENCY_ANNOTATION /\ result = "report") =>
    LET M == Max(2, config.runCount)
        ordered == {x \in (1..M) \X (1..M) : x[1] < x[2]}
    IN /\ Len(outputs) = M
       /\ report.textPairs = <<>>
       /\ report.variantBreakdown = <<>>
       /\ report.baselineComparisons = <<>>
       /\ Len(report.annotationPairs) = (M * (M - 1)) \div 2
       /\ {report.annotationPairs[n].pairLabel : n \in DOMAIN report.annotationPairs}
            = {<<VariantLabel(q[1]), VariantLabel(q[2])>> : q \in ordered}

C37_Witness ==
  /\ config.type = CONSISTENCY_ANNOTATION
  /\ config.runCount = 3
  /\ result = "report"
  /\ Len(report.annotationPairs) = 3
  /\ report.annotationPairs[2].pairLabel = <<"Variant 1", "Variant 3">>
  /\ report.textPairs = <<>>
  /\ report.commentary # 0

(* ---------------------- the per-variant breakdown ----------------------- *)
MaxVariants == 3

\* variant: the union is taken over every run, the variant itself included
unionOthers_All(sets, idx) == UNION {sets[jdx] : jdx \in DOMAIN sets}

\* unionOthers of the breakdown: the tokens of every run but the one at idx
unionOthers(sets, idx) == UNION {sets[jdx] : jdx \in (DOMAIN sets) \ {idx}}

\* what the breakdown loop computes for the run at idx: the two counts, the
\* divisor setV.size || 1, and the two fractions it pushes, in thousandths
variantStat(sets, idx) ==
  LET setV == sets[idx]
      sharedCount == Cardinality({t \in setV : t \in unionOthers(sets, idx)})
      uniqueCount == Cardinality({t \in setV : t \notin unionOthers(sets, idx)})
      totalCount == IF Cardinality(setV) = 0 THEN 1 ELSE Cardinality(setV)
  IN [runLabel |-> VariantLabel(idx),
      sharedCount |-> sharedCount,
      uniqueCount |-> uniqueCount,
      totalCount |-> totalCount,
      uniqueFraction |-> Rounded(<<uniqueCount, totalCount>>, 1000),
      sharedFraction |-> Rounded(<<sharedCount, totalCount>>, 1000)]

\* the token sets of the variants of a text consistency protocol: two or more
BreakdownInit ==
  /\ fn \in {[pc |-> "start", name |-> "variantBreakdown", sets |-> sets, value |-> <<>>] :
               sets \in UNION {[1..m -> SUBSET TokenPool] : m \in 2..MaxVariants}}
  /\ cmp = NoComparison
  /\ RunnerAtRest

ApplyVariantBreakdown ==
  /\ fn.pc = "start"
  /\ fn.name = "variantBreakdown"
  /\ fn' = [fn EXCEPT !.pc = "done",
                      !.value = [idx \in DOMAIN fn.sets |-> variantStat(fn.sets, idx)]]
  /\ UNCHANGED <<cmp, runnerVars>>

BreakdownNext == ApplyVariantBreakdown

BreakdownSpec == BreakdownInit /\ [][BreakdownNext]_vars

\* C38: for every variant, the tokens counted unique are those of its token
\* set that no other variant has, the tokens counted shared are those some
\* other variant has, and the two counts add up to the size of its token
\* set; the two fractions add up to 1 before rounding when the variant has a
\* token, and both are 0 when it has none.
C38_UniqueAndSharedPartition ==
  Applied("variantBreakdown") =>
    \A idx \in DOMAIN fn.sets :
      LET setV == fn.sets[idx]
          elsewhere == {t \in setV : \E jdx \in DOMAIN fn.sets : jdx # idx /\ t \in fn.sets[jdx]}
          stat == fn.value[idx]
      IN /\ stat.uniqueCount = Cardinality(setV \ elsewhere)
         /\ stat.sharedCount = Cardinality(elsewhere)
         /\ stat.uniqueCount + stat.sharedCount = Cardinality(setV)
         /\ setV # {} =>
              SameValue(Plus(<<stat.uniqueCount, stat.totalCount>>,
                             <<stat.sharedCount, stat.totalCount>>), One)
         /\ setV = {} =>
              /\ stat.uniqueCount = 0 /\ stat.sharedCount = 0
              /\ stat.uniqueFraction = 0 /\ stat.sharedFraction = 0

\* three variants: the first has one token of its own and one the third has too
C38_Witness ==
  /\ Applied("variantBreakdown")
  /\ Len(fn.sets) = 3
  /\ fn.sets[1] = {<<"a">>, <<"b">>}
  /\ fn.sets[2] = {}
  /\ fn.sets[3] = {<<"b">>, <<"a", "b">>}
  /\ fn.value[1].uniqueCount = 1
  /\ fn.value[1].sharedCount = 1
  /\ fn.value[1].uniqueFraction = 500
  /\ fn.value[2].sharedFraction = 0

(* --------------------- the resources a node records --------------------- *)
\* C39: the activeResourceIds of the node a generation step returns are the
\* ids of the resources that were put into the prompt of its generation
\* call, for a seed step and for a refinement step, whatever
\* config.activeResourceIds and config.refineConfig.activeResourceIds are.
C39_RecordedResourcesArePrompted ==
  StepReturned => newDoc.activeResourceIds = newDoc.fullPromptSnapshot.resources

(* --------------------- the application around the runner ---------------- *)
MaxReviews == 1
MaxAppRuns == 1

\* updateDoc(id, updates) of the application, called by a reviewer's action
\* (onRefute, onConfirm, onDelete, onSaveAnnotation, updateScore)
ReviewEvent(docId) == [type |-> "review", docId |-> docId]

\* the ids of project.documents: updateRunStep has put every published node there
Documents == {events[n].node.id : n \in {m \in DOMAIN events : events[m].type = "node"}}

\* while the runner is suspended on an oracle call or a delay the event loop
\* runs a handler of the workspace: the reviewer changes a document they
\* selected, any of project.documents
ReviewerMutates ==
  /\ pc \in AwaitingCall \cup AwaitingDelay
  /\ Count("review") < MaxReviews
  /\ \E id \in Documents : Emit(<<ReviewEvent(id)>>)
  /\ UNCHANGED <<fn, cmp, config, pc, i, phase, k, currentStep, gs, genResult, evalResult,
                 newDoc, outputs, rb, report, result, nextId>>

\* the application runs a Convergence experiment: refinement loops only
AppInit == Init /\ config.type = CONVERGENCE /\ config.runCount <= MaxAppRuns

AppNext ==
  \/ EnterProtocol
  \/ StartRun
  \/ BeginGenerationStep
  \/ GenerateNarrativeResolve
  \/ GenerateNarrativeReject
  \/ DelayAfterGeneration
  \/ EvaluateCoherenceResolve
  \/ EvaluateCoherenceMalformed
  \/ EvaluateCoherenceReject
  \/ FinishGenerationStep
  \/ RefinementLoopPublish
  \/ RefinementLoopIterate
  \/ CompleteRefinementRun
  \/ FinishProtocol
  \/ ReviewerMutates

AppSpec == AppInit /\ [][AppNext]_vars

\* a refinement step that reads this node as its predecessor is between the
\* start of its generation call and the publication of its node
DependentStepInFlight(id) ==
  /\ pc \in {"gen", "genDelay", "eval", "evalDelay", "rlRet"}
  /\ gs.previousStep # NoDoc
  /\ gs.previousStep.id = id

\* C40: no reviewer mutation is applied to a node while a refinement step
\* that reads the node as its predecessor is in flight.
C40_NoReviewWhileDependentInFlight ==
  [][\A id \in Documents :
       events' = Append(events, ReviewEvent(id)) => ~DependentStepInFlight(id)]_vars

====
